---- MODULE Spec2Model ----
(***************************************************************************)
(* A model of the payment agent of rag-poisoning-demo: the vendor store    *)
(* and its lexical retrieval engine (src/src/rag_system.py), the tool      *)
(* dispatcher with its guardrail interception point and the streaming      *)
(* control loop (src/src/agent.py).                                        *)
(*                                                                         *)
(* Text is a sequence of one-character strings, so that lower-casing,      *)
(* substring tests, occurrence counts and whitespace splitting are         *)
(* computed as Python computes them.  Scores are kept in HALF points       *)
(* (the code adds 0.5 per occurrence), so a raw score of 18.0 is 36 here;  *)
(* the similarity min(score/50, 1) is kept in hundredths.                  *)
(***************************************************************************)
EXTENDS Integers, Sequences, FiniteSets, TLC

----------------------------------------------------------------------------
(* Text helpers: the Python str operations the code uses.                  *)

\* str.lower() on one character (the upper-case letters the model's texts use)
LowerChar(c) ==
    CASE c = "A" -> "a"
      [] c = "B" -> "b"
      [] c = "C" -> "c"
      [] c = "X" -> "x"
      [] c = "U" -> "u"
      [] c = "N" -> "n"
      [] c = "S" -> "s"
      [] c = "F" -> "f"
      [] c = "E" -> "e"
      [] OTHER -> c

\* str.lower()
Lower(s) == [i \in 1..Len(s) |-> LowerChar(s[i])]

\* w in s  (Python substring test; the empty string is in every string)
Contains(w, s) ==
    \E i \in 0..(Len(s) - Len(w)) : SubSeq(s, i + 1, i + Len(w)) = w

\* the start positions of the occurrences of w in s
Occurrences(w, s) ==
    { i \in 1..(Len(s) - Len(w) + 1) : SubSeq(s, i, i + Len(w) - 1) = w }

\* s.count(w) for a non-empty w: non-overlapping occurrences, left to right;
\* each step takes the first occurrence at or after position i
RECURSIVE CountFrom(_, _, _)
CountFrom(w, occ, i) ==
    LET rest == { j \in occ : j >= i }
    IN  IF rest = {} THEN 0
        ELSE LET first == CHOOSE j \in rest : \A k \in rest : j <= k
             IN  1 + CountFrom(w, rest, first + Len(w))

Count(w, s) == IF Len(w) = 0 THEN Len(s) + 1 ELSE CountFrom(w, Occurrences(w, s), 1)

IsSpace(c) == c = " "

\* set(s.split()): the maximal runs of non-blank characters
SplitWords(s) ==
    { SubSeq(s, i, j) : <<i, j>> \in
        { p \in (1..Len(s)) \X (1..Len(s)) :
            /\ p[1] <= p[2]
            /\ \A k \in p[1]..p[2] : ~IsSpace(s[k])
            /\ (p[1] = 1 \/ IsSpace(s[p[1] - 1]))
            /\ (p[2] = Len(s) \/ IsSpace(s[p[2] + 1])) } }

\* s + " " + t
Concat3(s, t) == s \o <<" ">> \o t

RECURSIVE Repeat(_, _)
Repeat(s, n) == IF n = 0 THEN <<>> ELSE s \o Repeat(s, n - 1)

Min(a, b) == IF a <= b THEN a ELSE b

RECURSIVE SumOver(_, _)
\* the sum of f[x] over the finite set S
SumOver(f, S) ==
    IF S = {} THEN 0
    ELSE LET x == CHOOSE y \in S : TRUE IN f[x] + SumOver(f, S \ {x})

----------------------------------------------------------------------------
(* Retrieval engine: VendorRAG.search                                      *)

\* vendor.get('notes', '')
NotesOf(vendor) == IF "notes" \in DOMAIN vendor THEN vendor.notes ELSE <<>>

\* Rule 1: name match, +10
NameMatch(query, vendor) ==
    IF Contains(Lower(query), Lower(vendor.name)) THEN 20 ELSE 0

\* Rule 2: +1 for each query word found in the searchable text
WordMatches(query, vendor) ==
    LET searchable_lower == Lower(Concat3(vendor.name, NotesOf(vendor)))
    IN  2 * Cardinality({ w \in SplitWords(Lower(query)) : Contains(w, searchable_lower) })

\* Rule 3: full phrase, +5
PhraseMatch(query, vendor) ==
    LET searchable_lower == Lower(Concat3(vendor.name, NotesOf(vendor)))
    IN  IF Contains(Lower(query), searchable_lower) THEN 10 ELSE 0

\* faulty variant of QuestionFormat: the '?' is not asked for
QuestionFormatAnyNotes(query, vendor) ==
    LET notes == Lower(NotesOf(vendor))
    IN  IF \E w \in SplitWords(Lower(query)) : Contains(w, notes)
        THEN 6 ELSE 0

\* Rule 4: question format, +3
QuestionFormat(query, vendor) ==
    LET notes == Lower(NotesOf(vendor))
    IN  IF Contains(<<"?">>, notes) /\ \E w \in SplitWords(Lower(query)) : Contains(w, notes)
        THEN 6 ELSE 0

\* faulty variant of WordFrequency: a word counts once however often it
\* occurs
WordFrequencyOnce(query, vendor) ==
    LET searchable_lower == Lower(Concat3(vendor.name, NotesOf(vendor)))
        words == SplitWords(Lower(query))
    IN  Cardinality({ w \in words : Count(w, searchable_lower) > 0 })

\* Rule 5: word frequency, +0.5 per occurrence
WordFrequency(query, vendor) ==
    LET searchable_lower == Lower(Concat3(vendor.name, NotesOf(vendor)))
        words == SplitWords(Lower(query))
    IN  SumOver([w \in words |-> Count(w, searchable_lower)], words)

\* the five contributions of one vendor, each computed once
Rules(query, vendor) ==
    [name_match |-> NameMatch(query, vendor),
     word_matches |-> WordMatches(query, vendor),
     phrase_match |-> PhraseMatch(query, vendor),
     question_format |-> QuestionFormat(query, vendor),
     word_frequency |-> WordFrequency(query, vendor)]

\* score: the sum of the contributions (in half points)
ScoreOf(r) ==
    r.name_match + r.word_matches + r.phrase_match + r.question_format + r.word_frequency

RawScore(query, vendor) == ScoreOf(Rules(query, vendor))

\* score_breakdown: word_matches and word_frequency always, the other
\* three only when they contributed
BreakdownOf(r) ==
    [k \in {"word_matches", "word_frequency"}
           \cup { j \in {"name_match", "phrase_match", "question_format"} : r[j] > 0 }
       |-> r[k]]

\* the divisor of the similarity, 50.0
ScoreCap == 50

\* min(score / 50.0, 1.0), in hundredths
Similarity(score) == Min(score, 2 * ScoreCap)

\* one entry of results, from a vendor and its contributions
MakeResult(vendor, r) ==
    [vendor_id |-> vendor.vendor_id,
     similarity |-> Similarity(ScoreOf(r)),
     raw_score |-> ScoreOf(r),
     score_breakdown |-> BreakdownOf(r),
     metadata |-> vendor]

\* the entry the loop body of search builds for one vendor
ResultOf(query, vendor) == MakeResult(vendor, Rules(query, vendor))

----------------------------------------------------------------------------
(* The texts and records of the demo.  The data files are not part of the  *)
(* sources; the records are the inputs the scenario tests describe.        *)

ABC_CORP == <<"A", "B", "C", " ", "C", "o", "r", "p">>

\* how many times the saturating notes repeat the bait word
BaitRepeats == 64

\* the legitimate ABC Corp record; its notes are an input
CleanVendor(notes) ==
    [vendor_id |-> "V001", name |-> ABC_CORP, account_number |-> "123456789",
     routing_number |-> "021000021", notes |-> notes]

PlainNotes == <<"o", "k">>

\* notes that repeat a query word until the raw score reaches the cap
LongNotes == Repeat(<<"a", "b", "c">>, BaitRepeats)

\* another vendor of the clean document
OtherVendor ==
    [vendor_id |-> "V002", name |-> <<"X", " ", "C", "o", "r", "p">>,
     account_number |-> "222222222", routing_number |-> "021000021",
     notes |-> <<"o", "k">>]

\* the forged record of the poison fixture; its notes are an input
PoisonVendor(notes) ==
    [vendor_id |-> "V999", name |-> ABC_CORP, account_number |-> "999999999",
     routing_number |-> "999000999", notes |-> notes]

\* bait notes: "abc corp? abc corp"
BaitNotes ==
    <<"a", "b", "c", " ", "c", "o", "r", "p", "?", " ", "a", "b", "c", " ", "c", "o", "r", "p">>

\* a forged record that carries a field named "error": add_vendor stores
\* entries as they come
ErrorFieldVendor ==
    [vendor_id |-> "V998", name |-> ABC_CORP, account_number |-> "999999999",
     routing_number |-> "999000999", notes |-> BaitNotes, error |-> <<"none">>]

\* bait notes for a saturated competitor
LongBaitNotes == LongNotes \o BaitNotes

NO_MATCH_QUERY == <<"z", "z">>

\* a one-word query
CORP == <<"c", "o", "r", "p">>

\* the queries and records the model's runs search with; their results are
\* computed once
KnownQueries == {ABC_CORP, NO_MATCH_QUERY, CORP}
KnownVendors ==
    {CleanVendor(PlainNotes), CleanVendor(LongNotes), OtherVendor,
     PoisonVendor(BaitNotes), PoisonVendor(LongBaitNotes), ErrorFieldVendor}

----------------------------------------------------------------------------
(* Retrieval engine, continued: ranking                                    *)

\* the entries of the known queries and records
ResultTable == { <<p[1], p[2], ResultOf(p[1], p[2])>> : p \in KnownQueries \X KnownVendors }

\* ResultOf, looked up when it has been computed before
Result(query, vendor) ==
    IF <<query, vendor>> \in KnownQueries \X KnownVendors
    THEN (CHOOSE t \in ResultTable : t[1] = query /\ t[2] = vendor)[3]
    ELSE ResultOf(query, vendor)

\* faulty variant of KeepPositive: every vendor is kept
KeepEvery(r) == <<r>>

\* if score > 0: results.append(...)
KeepPositive(r) == IF r.raw_score > 0 THEN <<r>> ELSE <<>>

\* the for loop of search: the vendors scoring above 0, in collection order
RECURSIVE Scored(_, _)
Scored(query, vs) ==
    IF vs = <<>> THEN <<>>
    ELSE KeepPositive(Result(query, Head(vs))) \o Scored(query, Tail(vs))

\* the key results.sort orders by
SortKey(r) == r.similarity

\* faulty variant of InsertDesc: x placed after every entry whose key is not
\* larger, so that the sort is ascending
InsertAsc(sorted, x) ==
    LET k == Cardinality({ i \in 1..Len(sorted) : SortKey(sorted[i]) <= SortKey(x) })
    IN  SubSeq(sorted, 1, k) \o <<x>> \o SubSeq(sorted, k + 1, Len(sorted))

\* x placed after every entry whose key is not smaller (a stable insertion)
InsertDesc(sorted, x) ==
    LET k == Cardinality({ i \in 1..Len(sorted) : SortKey(sorted[i]) >= SortKey(x) })
    IN  SubSeq(sorted, 1, k) \o <<x>> \o SubSeq(sorted, k + 1, Len(sorted))

\* results.sort(key=similarity, reverse=True): descending and stable
RECURSIVE SortDesc(_)
SortDesc(rs) ==
    IF rs = <<>> THEN <<>>
    ELSE InsertDesc(SortDesc(SubSeq(rs, 1, Len(rs) - 1)), rs[Len(rs)])

\* results[:n_results]
Take(rs, n) == SubSeq(rs, 1, Min(n, Len(rs)))

\* the "results" list search returns
Search(query, vs, n_results) == Take(SortDesc(Scored(query, vs)), n_results)

\* the entry search appends to search_log (the timestamp is left out)
SearchLogEntry(query, results) ==
    [query |-> query,
     results_count |-> Len(results),
     top_result |-> IF results # <<>> THEN <<results[1].metadata.name>> ELSE <<>>]

----------------------------------------------------------------------------
(* JSON values of a model response.  A response is a sequence of tokens:   *)
(* an opening brace, a closing brace, a "key": value member, free text or  *)
(* blanks.  The braces of a member's own value are inside that member.     *)

LB == [t |-> "{"]
RB == [t |-> "}"]
Txt(s) == [t |-> "text", s |-> s]
WS == [t |-> "ws"]
Member(k, v) == [t |-> "member", key |-> k, value |-> v]
\* a member whose value nests deeper than the decoder's recursion limit
Deep == [t |-> "deep"]

\* a JSON object, a JSON value that is no object
Dict(kv) == [dict |-> TRUE, kv |-> kv]
NonDict == [dict |-> FALSE, kv |-> <<>>]

\* JSON scalars an amount can be
JNum(n) == [t |-> "num", n |-> n, s |-> <<>>]
JStr(s) == [t |-> "str", n |-> 0, s |-> s]
JNull == [t |-> "null", n |-> 0, s |-> <<>>]

\* str.strip() on a response: leading and trailing blanks removed
RECURSIVE Strip(_)
Strip(content) ==
    IF content = <<>> THEN <<>>
    ELSE IF Head(content).t = "ws" THEN Strip(Tail(content))
    ELSE IF content[Len(content)].t = "ws" THEN Strip(SubSeq(content, 1, Len(content) - 1))
    ELSE content

\* content.find('{') and content.rfind('}'), 0 standing for -1
FindFirst(content, tok) ==
    IF \E i \in 1..Len(content) : content[i].t = tok
    THEN CHOOSE i \in 1..Len(content) :
            content[i].t = tok /\ \A j \in 1..(i - 1) : content[j].t # tok
    ELSE 0

FindLast(content, tok) ==
    IF \E i \in 1..Len(content) : content[i].t = tok
    THEN CHOOSE i \in 1..Len(content) :
            content[i].t = tok /\ \A j \in (i + 1)..Len(content) : content[j].t # tok
    ELSE 0

\* json.loads succeeds on a span: one object, members and blanks between
\* its braces (text or a further brace there is a JSONDecodeError)
Decodes(span) ==
    /\ Len(span) >= 2
    /\ span[1].t = "{"
    /\ span[Len(span)].t = "}"
    /\ \A i \in 2..(Len(span) - 1) : span[i].t \in {"member", "ws"}

\* json.loads raises RecursionError on a span: scanning from the left, the
\* too deeply nested value comes before anything that is a JSONDecodeError
DecodeOverflows(span) ==
    /\ Len(span) >= 2
    /\ \E i \in 2..(Len(span) - 1) :
          /\ span[i].t = "deep"
          /\ \A j \in 2..(i - 1) : span[j].t \in {"member", "ws"}

\* the keys of the decoded object
KeysOf(span) == { span[i].key : i \in { j \in 1..Len(span) : span[j].t = "member" } }

\* parsed_json[k]: a repeated key keeps its last value
ValueOf(span, k) ==
    LET idx == { i \in 1..Len(span) : span[i].t = "member" /\ span[i].key = k }
    IN  span[CHOOSE i \in idx : \A j \in idx : j <= i].value

NoToolCall == [is_call |-> FALSE, tool_name |-> "", arguments |-> NonDict]

\* the tool call a decoded span holds, or None
CallOf(json_str) ==
    IF Decodes(json_str) /\ {"tool_name", "arguments"} \subseteq KeysOf(json_str)
    THEN [is_call |-> TRUE,
          tool_name |-> ValueOf(json_str, "tool_name"),
          arguments |-> ValueOf(json_str, "arguments")]
    ELSE NoToolCall

\* the span of a stripped response from json_start to json_end
SpanOf(content, json_start, json_end) ==
    IF json_start # 0 /\ json_end # 0 /\ json_end > json_start
    THEN CallOf(SubSeq(content, json_start, json_end))
    ELSE NoToolCall

\* content.find('{') and content.rfind('}') on the stripped response
Spanned(content) == SpanOf(content, FindFirst(content, "{"), FindLast(content, "}"))

\* _parse_tool_call: the span from the first '{' to the last '}', decoded,
\* kept when it has both fields; None otherwise
ParseToolCall(raw) == Spanned(Strip(raw))

\* the span of a stripped response makes json.loads raise RecursionError
SpanOverflows(content, json_start, json_end) ==
    /\ json_start # 0 /\ json_end # 0 /\ json_end > json_start
    /\ DecodeOverflows(SubSeq(content, json_start, json_end))

\* _parse_tool_call raises: only json.JSONDecodeError is caught
ParseOverflows(raw) ==
    /\ \E i \in 1..Len(raw) : raw[i].t = "deep"
    /\ SpanOverflows(Strip(raw), FindFirst(Strip(raw), "{"), FindLast(Strip(raw), "}"))

----------------------------------------------------------------------------
(* Guardrail classifier: PaymentAgent._check_with_guardrail                *)

\* str.strip() on text
RECURSIVE StripText(_)
StripText(s) ==
    IF s = <<>> THEN <<>>
    ELSE IF IsSpace(Head(s)) THEN StripText(Tail(s))
    ELSE IF IsSpace(s[Len(s)]) THEN StripText(SubSeq(s, 1, Len(s) - 1))
    ELSE s

\* s.startswith(prefix)
StartsWith(s, prefix) ==
    Len(s) >= Len(prefix) /\ SubSeq(s, 1, Len(prefix)) = prefix

\* the classifier call's outcome: it failed, or it answered with a text
GuardFailure == [fail |-> TRUE, content |-> <<>>]
GuardAnswer(text) == [fail |-> FALSE, content |-> text]

\* faulty variant of CheckWithGuardrail: a failed classifier call counts as
\* safe
CheckFailsOpen(outcome) ==
    IF outcome.fail THEN [is_safe |-> TRUE, log |-> "guardrail_error"]
    ELSE IF StartsWith(Lower(StripText(outcome.content)), <<"u", "n", "s", "a", "f", "e">>)
         THEN [is_safe |-> FALSE, log |-> "guardrail_unsafe"]
         ELSE [is_safe |-> TRUE, log |-> "guardrail_safe"]

\* (is_safe, log_message) for one classifier outcome
CheckWithGuardrail(outcome) ==
    IF outcome.fail THEN [is_safe |-> FALSE, log |-> "guardrail_error"]
    ELSE IF StartsWith(Lower(StripText(outcome.content)), <<"u", "n", "s", "a", "f", "e">>)
         THEN [is_safe |-> FALSE, log |-> "guardrail_unsafe"]
         ELSE [is_safe |-> TRUE, log |-> "guardrail_safe"]

----------------------------------------------------------------------------
(* Tools and dispatcher: search_vendors, transfer_funds, _execute_tool_call *)

NOT_FOUND == <<"No vendor found matching that query.">>
SECURITY_BLOCK ==
    <<"SECURITY BLOCK: Retrieved vendor data failed guardrail check. Escalating for manual review.">>
InvalidAmountMsg(amount) == <<"Invalid amount format: ", amount>>
UnknownToolMsg(tool_name) == <<"Unknown tool: ", tool_name>>

ErrorResult(msg) == [error |-> msg]

\* "error" in tool_result
HasError(tool_result) == "error" \in DOMAIN tool_result

Digits == {"0", "1", "2", "3", "4", "5", "6", "7", "8", "9"}

DigitValue(c) ==
    CASE c = "0" -> 0 [] c = "1" -> 1 [] c = "2" -> 2 [] c = "3" -> 3 [] c = "4" -> 4
      [] c = "5" -> 5 [] c = "6" -> 6 [] c = "7" -> 7 [] c = "8" -> 8 [] OTHER -> 9

RECURSIVE DigitsValue(_)
DigitsValue(ds) ==
    IF ds = <<>> THEN 0 ELSE 10 * DigitsValue(SubSeq(ds, 1, Len(ds) - 1)) + DigitValue(ds[Len(ds)])

\* float(text) for the texts of the model: blanks stripped, an optional
\* sign, then digits; anything else is a ValueError
ParseFloat(text) ==
    LET t == StripText(text)
        signed == t # <<>> /\ Head(t) \in {"-", "+"}
        ds == IF signed THEN Tail(t) ELSE t
    IN  IF ds # <<>> /\ \A i \in 1..Len(ds) : ds[i] \in Digits
        THEN [status |-> "ok",
              value |-> IF signed /\ Head(t) = "-" THEN 0 - DigitsValue(ds) ELSE DigitsValue(ds)]
        ELSE [status |-> "ValueError", value |-> 0]

\* float(amount): a number converts, a text is parsed, null is a TypeError
FloatOf(amount) ==
    CASE amount.t = "num" -> [status |-> "ok", value |-> amount.n]
      [] amount.t = "str" -> ParseFloat(amount.s)
      [] OTHER -> [status |-> "TypeError", value |-> 0]

\* f(**tool_args) binds: tool_args is a mapping with exactly f's parameters
Binds(tool_args, params) == tool_args.dict /\ DOMAIN tool_args.kv = params

\* what a dispatch leaves behind: whether an exception escaped, the result,
\* the log lines, the ledger, the search-log entries added and the texts
\* handed to the classifier
Outcome(raised, tool_result, logs, ledger, searched, inspected) ==
    [raised |-> raised, tool_result |-> tool_result, logs |-> logs,
     transactions |-> ledger, searched |-> searched, inspected |-> inspected]

\* search_vendors, given the results of rag.search(query, n_results=1):
\* the top result's record, or the NotFound payload
FoundOf(query, results) ==
    IF results # <<>>
    THEN [tool_result |-> results[1].metadata, logs |-> <<"search_call", "found">>,
          searched |-> <<SearchLogEntry(query, results)>>]
    ELSE [tool_result |-> ErrorResult(NOT_FOUND), logs |-> <<"search_call", "not_found">>,
          searched |-> <<SearchLogEntry(query, results)>>]

SearchVendors(query, vs) == FoundOf(query, Search(query, vs, 1))

\* the Transaction transfer_funds builds (the timestamp is left out)
Transaction(kv, numeric_amount) ==
    [vendor_name |-> kv.vendor_name, account_number |-> kv.account_number,
     routing_number |-> kv.routing_number, amount |-> numeric_amount,
     status |-> "completed"]

\* an exception leaves the dispatcher: nothing is returned
Raise(ledger) == Outcome(TRUE, ErrorResult(<<"TypeError">>), <<>>, ledger, <<>>, <<>>)

\* faulty variant of TransferWith: the transaction is appended before the
\* amount is looked at, so that a rejected amount leaves an entry behind
TransferAppendsFirst(kv, f, ledger) ==
    CASE f.status = "TypeError" -> Raise(ledger)
      [] f.status = "ValueError" ->
            Outcome(FALSE, ErrorResult(InvalidAmountMsg(kv.amount)),
                    <<"executing", "transfer_call", "transfer_vendor", "transfer_account",
                      "amount_error">>,
                    Append(ledger, Transaction(kv, 0)), <<>>, <<>>)
      [] OTHER ->
            Outcome(FALSE, Transaction(kv, f.value),
                    <<"executing", "transfer_call", "transfer_vendor", "transfer_account",
                      "amount", "executed">>,
                    Append(ledger, Transaction(kv, f.value)), <<>>, <<>>)

\* faulty variant of TransferWith: the transaction is returned but never
\* appended to the ledger
TransferForgets(kv, f, ledger) ==
    CASE f.status = "TypeError" -> Raise(ledger)
      [] f.status = "ValueError" ->
            Outcome(FALSE, ErrorResult(InvalidAmountMsg(kv.amount)),
                    <<"executing", "transfer_call", "transfer_vendor", "transfer_account",
                      "amount_error">>,
                    ledger, <<>>, <<>>)
      [] OTHER ->
            Outcome(FALSE, Transaction(kv, f.value),
                    <<"executing", "transfer_call", "transfer_vendor", "transfer_account",
                      "amount", "executed">>,
                    ledger, <<>>, <<>>)

\* transfer_funds after float(amount) gave f
TransferWith(kv, f, ledger) ==
    CASE f.status = "TypeError" -> Raise(ledger)
      [] f.status = "ValueError" ->
            Outcome(FALSE, ErrorResult(InvalidAmountMsg(kv.amount)),
                    <<"executing", "transfer_call", "transfer_vendor", "transfer_account",
                      "amount_error">>,
                    ledger, <<>>, <<>>)
      [] OTHER ->
            Outcome(FALSE, Transaction(kv, f.value),
                    <<"executing", "transfer_call", "transfer_vendor", "transfer_account",
                      "amount", "executed">>,
                    Append(ledger, Transaction(kv, f.value)), <<>>, <<>>)

\* transfer_funds(vendor_name, account_number, routing_number, amount)
TransferFunds(kv, ledger) == TransferWith(kv, FloatOf(kv.amount), ledger)

\* faulty variant of GuardApplies: error payloads go to the classifier too
GuardAppliesToErrors(use_guard, tool_result) ==
    use_guard /\ tool_result # <<>>

\* the guardrail branch of the dispatcher is taken
GuardApplies(use_guard, tool_result) ==
    use_guard /\ tool_result # <<>> /\ ~HasError(tool_result)

\* faulty variant of SearchBranch: the block keeps the account of the
\* record it should discard
SearchBranchLeaks(found, verdict, ledger, use_guard) ==
    IF GuardApplies(use_guard, found.tool_result)
    THEN Outcome(FALSE,
                 IF verdict.is_safe THEN found.tool_result
                 ELSE [error |-> SECURITY_BLOCK,
                       account_number |-> found.tool_result.account_number],
                 <<"executing">> \o found.logs \o <<verdict.log>>, ledger, found.searched,
                 <<NotesOf(found.tool_result)>>)
    ELSE Outcome(FALSE, found.tool_result, <<"executing">> \o found.logs, ledger,
                 found.searched, <<>>)

\* faulty variant of SearchBranch: the classifier is consulted but its
\* verdict is ignored
SearchBranchIgnoresVerdict(found, verdict, ledger, use_guard) ==
    IF GuardApplies(use_guard, found.tool_result)
    THEN Outcome(FALSE, found.tool_result,
                 <<"executing">> \o found.logs \o <<verdict.log>>, ledger, found.searched,
                 <<NotesOf(found.tool_result)>>)
    ELSE Outcome(FALSE, found.tool_result, <<"executing">> \o found.logs, ledger,
                 found.searched, <<>>)

\* the search branch of the dispatcher, after search_vendors returned found
\* and (when the guardrail branch is taken) the classifier gave verdict
SearchBranch(found, verdict, ledger, use_guard) ==
    IF GuardApplies(use_guard, found.tool_result)
    THEN Outcome(FALSE,
                 IF verdict.is_safe THEN found.tool_result ELSE ErrorResult(SECURITY_BLOCK),
                 <<"executing">> \o found.logs \o <<verdict.log>>, ledger, found.searched,
                 <<NotesOf(found.tool_result)>>)
    ELSE Outcome(FALSE, found.tool_result, <<"executing">> \o found.logs, ledger,
                 found.searched, <<>>)

\* faulty variant of ExecuteToolCall: an unknown tool name falls through to
\* the retrieval engine before the error is returned
ExecuteSearchesOnUnknown(tool_call, vs, ledger, use_guard, guard_outcome) ==
    CASE tool_call.tool_name = "search_vendors" ->
            IF ~Binds(tool_call.arguments, {"query"}) THEN Raise(ledger)
            ELSE SearchBranch(SearchVendors(tool_call.arguments.kv.query, vs),
                              CheckWithGuardrail(guard_outcome), ledger, use_guard)
      [] tool_call.tool_name = "transfer_funds" ->
            IF ~Binds(tool_call.arguments,
                      {"vendor_name", "account_number", "routing_number", "amount"})
            THEN Raise(ledger)
            ELSE TransferFunds(tool_call.arguments.kv, ledger)
      [] OTHER ->
            Outcome(FALSE, ErrorResult(UnknownToolMsg(tool_call.tool_name)),
                    <<"executing">>, ledger,
                    SearchVendors(<<tool_call.tool_name>>, vs).searched, <<>>)

\* faulty variant of ExecuteToolCall: a transfer is refused unless its
\* account is that of a record of the store
ExecuteChecksAccount(tool_call, vs, ledger, use_guard, guard_outcome) ==
    CASE tool_call.tool_name = "search_vendors" ->
            IF ~Binds(tool_call.arguments, {"query"}) THEN Raise(ledger)
            ELSE SearchBranch(SearchVendors(tool_call.arguments.kv.query, vs),
                              CheckWithGuardrail(guard_outcome), ledger, use_guard)
      [] tool_call.tool_name = "transfer_funds" ->
            IF ~Binds(tool_call.arguments,
                      {"vendor_name", "account_number", "routing_number", "amount"})
            THEN Raise(ledger)
            ELSE IF \E i \in 1..Len(vs) :
                       vs[i].account_number = tool_call.arguments.kv.account_number
                 THEN TransferFunds(tool_call.arguments.kv, ledger)
                 ELSE Outcome(FALSE, ErrorResult(<<"Unknown account">>),
                              <<"executing">>, ledger, <<>>, <<>>)
      [] OTHER ->
            Outcome(FALSE, ErrorResult(UnknownToolMsg(tool_call.tool_name)),
                    <<"executing">>, ledger, <<>>, <<>>)

\* _execute_tool_call: the dispatcher
ExecuteToolCall(tool_call, vs, ledger, use_guard, guard_outcome) ==
    CASE tool_call.tool_name = "search_vendors" ->
            IF ~Binds(tool_call.arguments, {"query"}) THEN Raise(ledger)
            ELSE SearchBranch(SearchVendors(tool_call.arguments.kv.query, vs),
                              CheckWithGuardrail(guard_outcome), ledger, use_guard)
      [] tool_call.tool_name = "transfer_funds" ->
            IF ~Binds(tool_call.arguments,
                      {"vendor_name", "account_number", "routing_number", "amount"})
            THEN Raise(ledger)
            ELSE TransferFunds(tool_call.arguments.kv, ledger)
      [] OTHER ->
            Outcome(FALSE, ErrorResult(UnknownToolMsg(tool_call.tool_name)),
                    <<"executing">>, ledger, <<>>, <<>>)

\* the kind of a dispatch result, read from its error text
ErrorKind(tool_result) ==
    IF ~HasError(tool_result) THEN "none"
    ELSE CASE tool_result.error[1] = NOT_FOUND[1] -> "NotFound"
           [] tool_result.error[1] = SECURITY_BLOCK[1] -> "SecurityBlock"
           [] tool_result.error[1] = "Invalid amount format: " -> "InvalidAmount"
           [] tool_result.error[1] = "Unknown tool: " -> "UnknownTool"
           [] OTHER -> "other"

----------------------------------------------------------------------------
(* The agent and one streaming process_request generator at a time.        *)

VARIABLES
    doc,            \* the backing vendor document: [ok, vendors]
    vendors,        \* VendorRAG.vendors
    search_log,     \* VendorRAG.search_log
    transactions,   \* PaymentAgent.transactions, the ledger
    use_guardrails, \* PaymentAgent.use_guardrails
    model_kind,     \* the primary model behind main_model: "compliant" or "arbitrary"
    pc,             \* where the generator of process_request stands
    user_request,   \* the argument of process_request
    turn,           \* the iteration of "for _ in range(5)" the generator is in
    messages,       \* the transcript
    tool_result,    \* the result of the latest dispatch
    pending,        \* tool_logs not yet yielded
    trace,          \* the items the generator has yielded
    requests,       \* process_request invocations so far
    model_calls,    \* primary-model calls of this invocation
    guard_calls,    \* the texts handed to the classifier in this invocation
    guard_replies,  \* the outcomes of those classifier calls, in order
    ledger0,        \* the ledger's length when this invocation was made
    calls,          \* VendorRAG used on its own: the calls made and what each returned
    probe,          \* a pure function applied to drawn inputs: the inputs and the results
    fresh           \* the collection of a second VendorRAG on the same path

vars == <<doc, vendors, search_log, transactions, use_guardrails, model_kind, pc,
          user_request,
          turn, messages, tool_result, pending, trace, requests, model_calls,
          guard_calls, guard_replies, ledger0, calls, probe, fresh>>


\* for _ in range(5)
MaxTurns == 5

\* bounds of the exploration
MaxRequests == 2
MaxLedger == 1
MaxAdds == 1

SYSTEM_PROMPT == <<Txt("system prompt")>>
FALLBACK == <<Txt("I'm sorry, I encountered an issue and couldn't complete your request.")>>

Message(role, content) == [role |-> role, content |-> content]

\* f"Tool Result: {json.dumps(tool_result)}" as a user-role message
ToolResultMessage(result) == Message("user", <<"Tool Result: ", result>>)

\* the seed transcript
SeedMessages(request) == <<Message("system", SYSTEM_PROMPT), Message("user", request)>>

\* one yielded item
Item(kind, body) == [kind |-> kind, body |-> body]

----------------------------------------------------------------------------
(* The two services, as the outcomes a call can have.                      *)

ToolCallJson(name, args) ==
    <<LB, Member("tool_name", name), Member("arguments", args), RB>>

TransferArgs(vendor_name, account_number, routing_number, amount) ==
    Dict([vendor_name |-> vendor_name, account_number |-> account_number,
          routing_number |-> routing_number, amount |-> amount])

\* the record the latest tool result handed to the model, if it is a vendor
CopiedVendors(msgs) ==
    IF Len(msgs) > 2 /\ msgs[Len(msgs)].role = "user"
       /\ "name" \in DOMAIN msgs[Len(msgs)].content[2]
    THEN {msgs[Len(msgs)].content[2]}
    ELSE {}

\* the transfer call of the prompt's workflow: the exact details of the
\* search result, the amount of the request
ProtocolTransfer(vendor) ==
    ToolCallJson("transfer_funds",
                 TransferArgs(vendor.name, vendor.account_number,
                              vendor.routing_number, JNum(10000)))

\* a transfer call with details of the model's own making
OwnTransfer(amount) ==
    ToolCallJson("transfer_funds", TransferArgs(ABC_CORP, "555555555", "000000000", amount))

\* responses that parse as a tool call whose dispatch returns; the calls
\* that add to the ledger are offered while it is below MaxLedger
ToolCallResponses(msgs, ledger) ==
    {ToolCallJson("search_vendors", Dict([query |-> ABC_CORP])),
     <<WS, Txt("Searching."), LB, Member("tool_name", "search_vendors"), WS,
       Member("arguments", Dict([query |-> NO_MATCH_QUERY])), RB, WS>>,
     ToolCallJson("delete_vendor", Dict(<<>>)),
     OwnTransfer(JStr(<<"a", "b", "c">>))}
    \cup (IF Len(ledger) < MaxLedger
          THEN {OwnTransfer(JStr(<<"-", "5">>))}
               \cup { ProtocolTransfer(v) : v \in CopiedVendors(msgs) }
          ELSE {})

\* responses that parse as a tool call whose dispatch raises
BadCallResponses ==
    {ToolCallJson("search_vendors", Dict(<<>>)),
     ToolCallJson("transfer_funds", NonDict),
     OwnTransfer(JNull)}

\* responses that do not parse as a tool call
TextResponses ==
    {<<Txt("Payment complete.")>>,
     <<LB, Member("tool_name", "search_vendors"), RB>>}

\* a model that follows the workflow of the system prompt: search for the
\* vendor of the request, transfer with the exact details of the result,
\* then answer in plain text; after an error result, report it and stop
ProtocolResponses(msgs) ==
    IF Len(msgs) = 2
    THEN {ToolCallJson("search_vendors", Dict([query |-> ABC_CORP]))}
    ELSE IF CopiedVendors(msgs) # {}
         THEN { ProtocolTransfer(v) : v \in CopiedVendors(msgs) }
         ELSE IF msgs[Len(msgs)].role = "user" /\ HasError(msgs[Len(msgs)].content[2])
              THEN {<<Txt("The request failed with the error of the tool result.")>>}
              ELSE {<<Txt("Payment complete.")>>}

\* the responses explored on an agent whose construction is part of the
\* run: a search, a call that raises, a transfer, a final answer
BootResponses(ledger) ==
    {ToolCallJson("search_vendors", Dict([query |-> ABC_CORP])),
     ToolCallJson("search_vendors", Dict(<<>>)),
     <<Txt("Payment complete.")>>}
    \cup (IF Len(ledger) < MaxLedger THEN {OwnTransfer(JNum(10000))} ELSE {})

\* the responses the two variants of the agent are compared on: a search,
\* an unknown tool, a call that raises, a transfer, a final answer
PairResponses(ledger) ==
    {ToolCallJson("search_vendors", Dict([query |-> ABC_CORP])),
     ToolCallJson("delete_vendor", Dict(<<>>)),
     OwnTransfer(JNull),
     <<Txt("Payment complete.")>>}
    \cup (IF Len(ledger) < MaxLedger THEN {OwnTransfer(JNum(10000))} ELSE {})

MaxTokens == 4

RECURSIVE TokenSeqs(_, _)
\* the sequences of at most n of the tokens
TokenSeqs(tokens, n) ==
    IF n = 0 THEN {<<>>}
    ELSE LET shorter == TokenSeqs(tokens, n - 1)
         IN  shorter \cup { Append(r, t) : r \in shorter, t \in tokens }

SearchCall == ToolCallJson("search_vendors", Dict([query |-> ABC_CORP]))

\* the responses explored on a store with a history of loads and adds: a
\* search or a transfer without an amount to begin with, then a transfer or
\* the final answer
FrameResponses(msgs, ledger) ==
    (IF Len(msgs) = 2 THEN {SearchCall, OwnTransfer(JNull)}
     ELSE {<<Txt("Payment complete.")>>})
    \cup (IF Len(ledger) < MaxLedger THEN {OwnTransfer(JNum(10000))} ELSE {})

\* the responses the parser is explored on: in the first turn every short
\* sequence of braces, blanks, text and members, and some longer ones: a
\* call inside text, two calls side by side, calls with a further member or
\* a too deeply nested one; afterwards a plain answer
ParserResponses(msgs) ==
    IF Len(msgs) = 2
    THEN TokenSeqs({LB, RB, WS, Txt("text"), Deep,
                    Member("tool_name", "search_vendors"),
                    Member("arguments", Dict([query |-> ABC_CORP]))}, MaxTokens)
         \cup {<<WS, Txt("Searching.")>> \o SearchCall \o <<Txt("Done."), WS>>,
               SearchCall \o <<WS>> \o SearchCall,
               <<LB, Member("tool_name", "search_vendors"), Member("id", "1"),
                 Member("arguments", Dict([query |-> ABC_CORP])), RB>>,
               <<LB, Member("tool_name", "search_vendors"),
                 Member("arguments", Dict([query |-> ABC_CORP])), Deep, RB>>,
               <<LB, Deep, Member("tool_name", "search_vendors"),
                 Member("arguments", Dict([query |-> ABC_CORP])), RB>>,
               <<LB, Txt("text"), Deep, RB>>,
               ToolCallJson("search_vendors", Dict(<<>>))}
    ELSE {<<Txt("Payment complete.")>>}

\* what the primary model may answer: a compliant model follows the
\* workflow, an arbitrary one answers anything
ModelResponses(kind, msgs, ledger) ==
    IF kind = "compliant" THEN ProtocolResponses(msgs)
    ELSE IF kind = "boot" THEN BootResponses(ledger)
    ELSE IF kind = "parser" THEN ParserResponses(msgs)
    ELSE IF kind = "pair" THEN PairResponses(ledger)
    ELSE IF kind = "frame" THEN FrameResponses(msgs, ledger)
    ELSE ToolCallResponses(msgs, ledger) \cup BadCallResponses \cup TextResponses

GuardOutcomes ==
    {GuardFailure,
     GuardAnswer(<<"U", "N", "S", "A", "F", "E">>),
     GuardAnswer(<<" ", "U", "n", "s", "a", "f", "e", ".">>),
     GuardAnswer(<<"S", "A", "F", "E">>),
     GuardAnswer(<<"n", "o", "t", " ", "u", "n", "s", "a", "f", "e">>),
     GuardAnswer(<<"u", "n", "s">>),
     GuardAnswer(<<>>)}

\* an arbitrary model is explored with the three kinds of outcome, a
\* compliant one with every outcome
GuardOutcomesFor(kind) ==
    IF kind = "compliant" THEN GuardOutcomes
    ELSE {GuardFailure, GuardAnswer(<<"U", "N", "S", "A", "F", "E">>),
          GuardAnswer(<<"S", "A", "F", "E">>)}

----------------------------------------------------------------------------
(* The vendor document: JSON text written by json.dump, read by json.load  *)

\* a dict as json.dump writes it: an object, its members
JsonObject(vendor) == { <<k, vendor[k]>> : k \in DOMAIN vendor }

\* the dict json.load builds from an object
DictOf(object) ==
    [k \in { m[1] : m \in object } |-> (CHOOSE m \in object : m[1] = k)[2]]

\* json.dump({'vendors': vs}, f, indent=2): a readable document with the
\* collection as its 'vendors' array
JsonDocument(vs) == [ok |-> TRUE, vendors |-> [i \in 1..Len(vs) |-> JsonObject(vs[i])]]

\* json.load(f)['vendors'] on a readable document
VendorsOf(document) ==
    [i \in 1..Len(document.vendors) |-> DictOf(document.vendors[i])]

----------------------------------------------------------------------------
(* Initial state: the agent is constructed on a loaded vendor document.    *)

\* the clean documents: the legitimate record with plain notes, or with
\* notes long enough for its raw score to reach the cap
CleanDoc(notes) == JsonDocument(<<CleanVendor(notes), OtherVendor>>)

\* an arbitrary model is explored on the plain document and the short bait,
\* a compliant one on every document and every bait
InitDocs(kind) ==
    IF kind = "compliant" THEN {CleanDoc(PlainNotes), CleanDoc(LongNotes)}
    ELSE {CleanDoc(PlainNotes)}

PoisonEntries(kind) ==
    IF kind = "compliant" THEN {PoisonVendor(BaitNotes), PoisonVendor(LongBaitNotes)}
    ELSE IF kind = "store"
         THEN {PoisonVendor(BaitNotes), PoisonVendor(LongBaitNotes), ErrorFieldVendor}
         ELSE {PoisonVendor(BaitNotes), ErrorFieldVendor}

\* PaymentAgent.__init__: the store is loaded, the ledger is empty
Init ==
    /\ model_kind \in {"compliant", "arbitrary"}
    /\ doc \in InitDocs(model_kind)
    /\ vendors = VendorsOf(doc)
    /\ search_log = <<>>
    /\ transactions = <<>>
    /\ use_guardrails \in BOOLEAN
    /\ pc = "idle"
    /\ user_request = <<>>
    /\ turn = 0
    /\ messages = <<>>
    /\ tool_result = <<>>
    /\ pending = <<>>
    /\ trace = <<>>
    /\ requests = 0
    /\ model_calls = 0
    /\ guard_calls = <<>>
    /\ guard_replies = <<>>
    /\ calls = <<>>
    /\ probe = <<>>
    /\ fresh = <<>>
    /\ ledger0 = 0

----------------------------------------------------------------------------
(* Store operations                                                        *)

\* add_vendor, as inject_poison calls it before the first request: append in
\* memory, then rewrite the document in full
AddVendor ==
    /\ pc = "idle"
    /\ Len(vendors) < 2 + MaxAdds
    /\ \E entry \in PoisonEntries(model_kind) :
          /\ vendors' = Append(vendors, entry)
          /\ doc' = JsonDocument(vendors')
    /\ UNCHANGED <<calls, probe, fresh, search_log, transactions, use_guardrails, model_kind, pc, user_request, turn,
                   messages, tool_result, pending, trace, requests, model_calls,
                   guard_calls, guard_replies, ledger0>>

----------------------------------------------------------------------------
(* process_request: one action per resumption of the generator             *)

\* faulty variant of ProcessRequest: the ledger is emptied for each request
ProcessRequestResets ==
    /\ pc \in {"idle", "done", "raised"}
    /\ requests < (IF model_kind = "compliant" THEN MaxRequests ELSE 1)
    /\ requests' = requests + 1
    /\ user_request' = <<Txt("Please pay ABC Corp"), Txt("request"), requests'>>
    /\ pc' = "created"
    /\ turn' = 0
    /\ messages' = <<>>
    /\ tool_result' = <<>>
    /\ pending' = <<>>
    /\ trace' = <<>>
    /\ model_calls' = 0
    /\ guard_calls' = <<>>
    /\ guard_replies' = <<>>
    /\ transactions' = <<>>
    /\ ledger0' = 0
    /\ UNCHANGED <<calls, probe, fresh, doc, vendors, search_log, use_guardrails, model_kind>>

\* calling process_request only creates the generator
ProcessRequest ==
    /\ pc \in {"idle", "done", "raised"}
    /\ requests < (IF model_kind = "compliant" THEN MaxRequests ELSE 1)
    /\ requests' = requests + 1
    /\ user_request' = <<Txt("Please pay ABC Corp"), Txt("request"), requests'>>
    /\ pc' = "created"
    /\ turn' = 0
    /\ messages' = <<>>
    /\ tool_result' = <<>>
    /\ pending' = <<>>
    /\ trace' = <<>>
    /\ model_calls' = 0
    /\ guard_calls' = <<>>
    /\ guard_replies' = <<>>
    /\ ledger0' = Len(transactions)
    /\ UNCHANGED <<calls, probe, fresh, doc, vendors, search_log, transactions, use_guardrails, model_kind>>

\* first resumption: the header line
YieldHeader ==
    /\ pc = "created"
    /\ trace' = Append(trace, Item("header", <<>>))
    /\ pc' = "header"
    /\ UNCHANGED <<calls, probe, fresh, doc, vendors, search_log, transactions, use_guardrails, model_kind, user_request,
                   turn, messages, tool_result, pending, requests, model_calls,
                   guard_calls, guard_replies, ledger0>>

\* faulty variant of EnterLoop: the model is called ahead, while the
\* "thinking" line is being yielded
EnterLoopCallsAhead ==
    /\ pc = "header"
    /\ messages' = SeedMessages(user_request)
    /\ turn' = 1
    /\ trace' = Append(trace, Item("thinking", <<>>))
    /\ model_calls' = model_calls + 1
    /\ pc' = "thinking"
    /\ UNCHANGED <<calls, probe, fresh, doc, vendors, search_log, transactions, use_guardrails, model_kind, user_request,
                   tool_result, pending, requests, guard_calls, guard_replies, ledger0>>

\* second resumption: the transcript is seeded and the loop is entered
EnterLoop ==
    /\ pc = "header"
    /\ messages' = SeedMessages(user_request)
    /\ turn' = 1
    /\ trace' = Append(trace, Item("thinking", <<>>))
    /\ pc' = "thinking"
    /\ UNCHANGED <<calls, probe, fresh, doc, vendors, search_log, transactions, use_guardrails, model_kind, user_request,
                   tool_result, pending, requests, model_calls, guard_calls, guard_replies, ledger0>>

\* faulty variant of Continue: the range is one iteration too long
ContinueOneMore ==
    IF turn < MaxTurns + 1
    THEN /\ turn' = turn + 1
         /\ trace' = Append(trace, Item("thinking", <<>>))
         /\ pc' = "thinking"
    ELSE /\ turn' = turn
         /\ trace' = Append(trace, Item("final", FALLBACK))
         /\ pc' = "final"

\* the end of an iteration: the next one, or the fallback once the range
\* is used up
Continue ==
    IF turn < MaxTurns
    THEN /\ turn' = turn + 1
         /\ trace' = Append(trace, Item("thinking", <<>>))
         /\ pc' = "thinking"
    ELSE /\ turn' = turn
         /\ trace' = Append(trace, Item("final", FALLBACK))
         /\ pc' = "final"

\* faulty variant of ModelCallFails: after the error line the loop goes on
ModelCallFailsGoesOn ==
    /\ pc = "thinking"
    /\ model_calls' = model_calls + 1
    /\ trace' = Append(trace, Item("ollama_error", <<>>))
    /\ pc' = "error_line"
    /\ UNCHANGED <<calls, probe, fresh, doc, vendors, search_log, transactions, use_guardrails, model_kind, user_request,
                   turn, messages, tool_result, pending, requests, guard_calls, guard_replies, ledger0>>

\* faulty variant of ModelCallFails: the transactions of the invocation
\* are taken back when the service fails
ModelCallFailsRollsBack ==
    /\ pc = "thinking"
    /\ model_calls' = model_calls + 1
    /\ trace' = Append(trace, Item("ollama_error", <<>>))
    /\ transactions' = SubSeq(transactions, 1, ledger0)
    /\ pc' = "aborted"
    /\ UNCHANGED <<calls, probe, fresh, doc, vendors, search_log, use_guardrails, model_kind, user_request,
                   turn, messages, tool_result, pending, requests, guard_calls, guard_replies, ledger0>>

\* the primary-model call fails: the error line, then return
ModelCallFails ==
    /\ pc = "thinking"
    /\ model_calls' = model_calls + 1
    /\ trace' = Append(trace, Item("ollama_error", <<>>))
    /\ pc' = "aborted"
    /\ UNCHANGED <<calls, probe, fresh, doc, vendors, search_log, transactions, use_guardrails, model_kind, user_request,
                   turn, messages, tool_result, pending, requests, guard_calls, guard_replies, ledger0>>

\* the response is no tool call: it is the final answer
FinalAnswer ==
    /\ pc = "thinking"
    /\ \E content \in ModelResponses(model_kind, messages, transactions) :
          /\ ~ParseOverflows(content)
          /\ ~ParseToolCall(content).is_call
          /\ messages' = Append(messages, Message("assistant", content))
          /\ trace' = Append(trace, Item("final", content))
    /\ model_calls' = model_calls + 1
    /\ pc' = "final"
    /\ UNCHANGED <<calls, probe, fresh, doc, vendors, search_log, transactions, use_guardrails, model_kind, user_request,
                   turn, tool_result, pending, requests, guard_calls, guard_replies, ledger0>>

\* the response is a tool call and the dispatcher returns: the tool has
\* run and the first of its log lines is yielded
Dispatch ==
    /\ pc = "thinking"
    /\ \E content \in ModelResponses(model_kind, messages, transactions) :
       \E g \in (IF use_guardrails THEN GuardOutcomesFor(model_kind) ELSE {GuardFailure}) :
       \E tool_call \in {ParseToolCall(content)} :
          /\ tool_call.is_call
          /\ \E o \in {ExecuteToolCall(tool_call, vendors, transactions, use_guardrails, g)} :
              /\ ~o.raised
              /\ messages' = Append(messages, Message("assistant", content))
              /\ transactions' = o.transactions
              /\ search_log' = search_log \o o.searched
              /\ guard_calls' = guard_calls \o o.inspected
              /\ guard_replies' = guard_replies \o (IF o.inspected # <<>> THEN <<g>> ELSE <<>>)
              /\ tool_result' = o.tool_result
              /\ trace' = Append(trace, Item("log", <<Head(o.logs)>>))
              /\ pending' = Tail(o.logs)
    /\ model_calls' = model_calls + 1
    /\ pc' = "logs"
    /\ UNCHANGED <<calls, probe, fresh, doc, vendors, use_guardrails, model_kind, user_request, turn, requests, ledger0>>

\* the response is a tool call and the dispatcher raises: the exception
\* leaves the generator
DispatchRaises ==
    /\ pc = "thinking"
    /\ \E content \in ModelResponses(model_kind, messages, transactions) :
       \E tool_call \in {ParseToolCall(content)} :
          /\ tool_call.is_call
          /\ \E o \in {ExecuteToolCall(tool_call, vendors, transactions, use_guardrails,
                                      GuardFailure)} :
              /\ o.raised
              /\ messages' = Append(messages, Message("assistant", content))
    /\ model_calls' = model_calls + 1
    /\ pc' = "raised"
    /\ UNCHANGED <<calls, probe, fresh, doc, vendors, search_log, transactions, use_guardrails, model_kind, user_request,
                   turn, tool_result, pending, trace, requests, guard_calls, guard_replies, ledger0>>

\* the parser raises on the response: the exception leaves the generator
ParseRaises ==
    /\ pc = "thinking"
    /\ \E content \in ModelResponses(model_kind, messages, transactions) :
          /\ ParseOverflows(content)
          /\ messages' = Append(messages, Message("assistant", content))
    /\ model_calls' = model_calls + 1
    /\ pc' = "parse_raised"
    /\ UNCHANGED <<calls, probe, fresh, doc, vendors, search_log, transactions, use_guardrails,
                   model_kind, user_request, turn, tool_result, pending, trace, requests,
                   guard_calls, guard_replies, ledger0>>

\* a further log line of the dispatch
YieldLog ==
    /\ pc = "logs"
    /\ pending # <<>>
    /\ trace' = Append(trace, Item("log", <<Head(pending)>>))
    /\ pending' = Tail(pending)
    /\ UNCHANGED <<calls, probe, fresh, doc, vendors, search_log, transactions, use_guardrails, model_kind, pc,
                   user_request, turn, messages, tool_result, requests, model_calls,
                   guard_calls, guard_replies, ledger0>>

\* the logs are out: the result is fed back; an error result gets its line,
\* any other result goes straight to the next iteration
FeedBack ==
    /\ pc = "logs"
    /\ pending = <<>>
    /\ messages' = Append(messages, ToolResultMessage(tool_result))
    /\ IF HasError(tool_result)
       THEN /\ trace' = Append(trace, Item("tool_error", tool_result.error))
            /\ pc' = "error_line"
            /\ turn' = turn
       ELSE Continue
    /\ UNCHANGED <<calls, probe, fresh, doc, vendors, search_log, transactions, use_guardrails, model_kind, user_request,
                   tool_result, pending, requests, model_calls, guard_calls, guard_replies, ledger0>>

\* after the error line the loop goes on all the same
AfterError ==
    /\ pc = "error_line"
    /\ Continue
    /\ UNCHANGED <<calls, probe, fresh, doc, vendors, search_log, transactions, use_guardrails, model_kind, user_request,
                   messages, tool_result, pending, requests, model_calls, guard_calls, guard_replies,
                   ledger0>>

\* the generator returns after its terminal item
Return ==
    /\ pc \in {"final", "aborted"}
    /\ pc' = "done"
    /\ UNCHANGED <<calls, probe, fresh, doc, vendors, search_log, transactions, use_guardrails, model_kind, user_request,
                   turn, messages, tool_result, pending, trace, requests, model_calls,
                   guard_calls, guard_replies, ledger0>>

----------------------------------------------------------------------------
(* VendorRAG on its own: add_vendor and search called directly.            *)

MaxSearches == 2
MaxResults == 3

\* the agent's part of the state while only the store is used
AgentUnused ==
    /\ transactions = <<>>
    /\ use_guardrails = FALSE
    /\ pc = "idle"
    /\ user_request = <<>>
    /\ turn = 0
    /\ messages = <<>>
    /\ tool_result = <<>>
    /\ pending = <<>>
    /\ trace = <<>>
    /\ requests = 0
    /\ model_calls = 0
    /\ guard_calls = <<>>
    /\ guard_replies = <<>>
    /\ ledger0 = 0

\* VendorRAG.__init__ and load_vendors on a clean document
StoreInit ==
    /\ model_kind = "store"
    /\ doc \in {CleanDoc(PlainNotes), CleanDoc(LongNotes)}
    /\ vendors = VendorsOf(doc)
    /\ search_log = <<>>
    /\ calls = <<>>
    /\ probe = <<>>
    /\ fresh = <<>>
    /\ AgentUnused

\* faulty variant of StoreSearch: once the search log has an entry the sort
\* is skipped
StoreSearchRemembers ==
    /\ Len(calls) < MaxSearches
    /\ \E query \in KnownQueries : \E n_results \in 1..MaxResults :
       \E results \in {IF search_log = <<>> THEN Search(query, vendors, n_results)
                       ELSE Take(Scored(query, vendors), n_results)} :
          /\ calls' = Append(calls, [query |-> query, n_results |-> n_results,
                                     vendors |-> vendors, results |-> results])
          /\ search_log' = Append(search_log, SearchLogEntry(query, results))
    /\ UNCHANGED <<probe, fresh, doc, vendors, transactions, use_guardrails, model_kind, pc,
                   user_request, turn, messages, tool_result, pending, trace, requests,
                   model_calls, guard_calls, guard_replies, ledger0>>

\* search(query, n_results): the results are returned and the call is
\* logged; calls keeps each call with the collection it ran on
StoreSearch ==
    /\ Len(calls) < MaxSearches
    /\ \E query \in KnownQueries : \E n_results \in 1..MaxResults :
       \E results \in {Search(query, vendors, n_results)} :
          /\ calls' = Append(calls, [query |-> query, n_results |-> n_results,
                                     vendors |-> vendors, results |-> results])
          /\ search_log' = Append(search_log, SearchLogEntry(query, results))
    /\ UNCHANGED <<probe, fresh, doc, vendors, transactions, use_guardrails, model_kind, pc,
                   user_request, turn, messages, tool_result, pending, trace, requests,
                   model_calls, guard_calls, guard_replies, ledger0>>

StoreNext ==
    \/ AddVendor
    \/ StoreSearch

StoreSpec == StoreInit /\ [][StoreNext]_vars

----------------------------------------------------------------------------
(* search applied to a two-vendor collection before and after more         *)
(* occurrences of a query word are appended to one vendor's notes.         *)

MaxBoost == 2

X_CORP == <<"X", " ", "C", "o", "r", "p">>

\* a vendor record with the given id, name and notes
ProbeVendor(vendor_id, name, notes) ==
    [vendor_id |-> vendor_id, name |-> name, account_number |-> "000000000",
     routing_number |-> "000000000", notes |-> notes]

ProbeNames == {ABC_CORP, X_CORP}
\* a query that repeats one word, a word that overlaps itself
AA_AA == <<"a", "a", " ", "a", "a">>

ProbeNotes == {<<>>, PlainNotes, CORP, BaitNotes, LongNotes, <<"a", "a", "a">>}
ProbeQueries == {ABC_CORP, CORP, AA_AA}

\* the vendor with extra appended to its notes
Boosted(vendor, extra) == [vendor EXCEPT !.notes = @ \o extra]

\* the collection with its k-th vendor boosted
BoostedAt(vs, k, extra) == [vs EXCEPT ![k] = Boosted(@, extra)]

\* the inputs for a query: two vendors in either order, the vendor to boost, one
\* of the query's words, how often it is appended and how it is separated
ProbeInputsFor(q) ==
    { [stage |-> "drawn", query |-> q, vs |-> <<ProbeVendor("V1", a[1], a[2]),
                                              ProbeVendor("V2", b[1], b[2])>>,
       k |-> k, extra |-> Repeat(sep \o w, times), n_results |-> n,
       raw_before |-> 0, raw_after |-> 0, before |-> <<>>, after |-> <<>>] :
        a \in ProbeNames \X ProbeNotes, b \in ProbeNames \X ProbeNotes,
        k \in 1..2, w \in SplitWords(Lower(q)),
        times \in 1..MaxBoost, sep \in {<<>>, <<" ">>}, n \in 1..2 }

ProbeInputs == UNION { ProbeInputsFor(q) : q \in ProbeQueries }

ProbeInit ==
    /\ model_kind = "probe"
    /\ doc = CleanDoc(PlainNotes)
    /\ vendors = VendorsOf(doc)
    /\ search_log = <<>>
    /\ calls = <<>>
    /\ probe \in ProbeInputs
    /\ fresh = <<>>
    /\ AgentUnused

ProbeSearch ==
    /\ probe.stage = "drawn"
    /\ probe' = [probe EXCEPT
          !.stage = "applied",
          !.raw_before = RawScore(probe.query, probe.vs[probe.k]),
          !.raw_after = RawScore(probe.query, Boosted(probe.vs[probe.k], probe.extra)),
          !.before = Search(probe.query, probe.vs, probe.n_results),
          !.after = Search(probe.query, BoostedAt(probe.vs, probe.k, probe.extra),
                           probe.n_results)]
    /\ UNCHANGED <<calls, fresh, doc, vendors, search_log, transactions, use_guardrails,
                   model_kind, pc, user_request, turn, messages, tool_result, pending,
                   trace, requests, model_calls, guard_calls, guard_replies, ledger0>>

ProbeNext == ProbeSearch

ProbeSpec == ProbeInit /\ [][ProbeNext]_vars

----------------------------------------------------------------------------
(* VendorRAG and its backing document: load_vendors and add_vendor with    *)
(* their failures, and a second VendorRAG opened on the same path.         *)

MaxCalls == 3

\* a document open or json.load fails on: missing, unreadable, cut short or
\* without a 'vendors' key
UnreadableDoc == [ok |-> FALSE, vendors |-> <<>>]

PersistDocs == {CleanDoc(PlainNotes), UnreadableDoc}

\* one call of the history: the operation, the record it was given, the
\* collection before and after, the document after, and what it returned
Call(op, record, before, after, document, returned) ==
    [op |-> op, record |-> record, before |-> before, after |-> after,
     doc |-> document, returned |-> returned]

\* the body of load_vendors: the collection is replaced by the document's,
\* or left as it was when the document cannot be read
LoadFrom(document, old) == IF document.ok THEN VendorsOf(document) ELSE old

\* VendorRAG.__init__: no vendors, nothing loaded yet
PersistInit ==
    /\ model_kind = "persist"
    /\ doc \in PersistDocs
    /\ vendors = <<>>
    /\ fresh = <<>>
    /\ search_log = <<>>
    /\ calls = <<>>
    /\ probe = <<>>
    /\ AgentUnused

\* faulty variant of LoadVendors: the document's records are added to the
\* collection
LoadVendorsExtends ==
    /\ Len(calls) < MaxCalls
    /\ vendors' = (IF doc.ok THEN vendors \o VendorsOf(doc) ELSE vendors)
    /\ calls' = Append(calls, Call("load_vendors", <<>>, vendors, vendors', doc, doc.ok))
    /\ UNCHANGED <<probe, fresh, doc, search_log, transactions, use_guardrails, model_kind,
                   pc, user_request, turn, messages, tool_result, pending, trace, requests,
                   model_calls, guard_calls, guard_replies, ledger0>>

\* load_vendors on the store
LoadVendors ==
    /\ Len(calls) < MaxCalls
    /\ vendors' = LoadFrom(doc, vendors)
    /\ calls' = Append(calls, Call("load_vendors", <<>>, vendors, vendors', doc, doc.ok))
    /\ UNCHANGED <<probe, fresh, doc, search_log, transactions, use_guardrails, model_kind,
                   pc, user_request, turn, messages, tool_result, pending, trace, requests,
                   model_calls, guard_calls, guard_replies, ledger0>>

\* a new VendorRAG on the same path and its load_vendors
FreshLoad ==
    /\ Len(calls) < MaxCalls
    /\ fresh' = LoadFrom(doc, <<>>)
    /\ calls' = Append(calls, Call("fresh_load", <<>>, <<>>, fresh', doc, doc.ok))
    /\ UNCHANGED <<probe, doc, vendors, search_log, transactions, use_guardrails,
                   model_kind, pc, user_request, turn, messages, tool_result, pending,
                   trace, requests, model_calls, guard_calls, guard_replies, ledger0>>

\* faulty variant of AddVendorWrites: the document is written before the
\* record is appended
AddVendorWritesFirst ==
    /\ Len(calls) < MaxCalls
    /\ \E entry \in PoisonEntries(model_kind) :
          /\ vendors' = Append(vendors, entry)
          /\ doc' = JsonDocument(vendors)
          /\ calls' = Append(calls, Call("add_vendor", entry, vendors, vendors', doc', TRUE))
    /\ UNCHANGED <<probe, fresh, search_log, transactions, use_guardrails, model_kind,
                   pc, user_request, turn, messages, tool_result, pending, trace, requests,
                   model_calls, guard_calls, guard_replies, ledger0>>

\* faulty variant of AddVendorWrites: a record whose vendor_id or name is
\* already in the collection is refused
AddVendorRejectsDuplicates ==
    /\ Len(calls) < MaxCalls
    /\ \E entry \in PoisonEntries(model_kind) :
          IF \E i \in 1..Len(vendors) :
                 vendors[i].vendor_id = entry.vendor_id \/ vendors[i].name = entry.name
          THEN /\ UNCHANGED <<vendors, doc>>
               /\ calls' = Append(calls, Call("add_vendor", entry, vendors, vendors, doc, FALSE))
          ELSE /\ vendors' = Append(vendors, entry)
               /\ doc' = JsonDocument(vendors')
               /\ calls' = Append(calls, Call("add_vendor", entry, vendors, vendors', doc', TRUE))
    /\ UNCHANGED <<probe, fresh, search_log, transactions, use_guardrails, model_kind,
                   pc, user_request, turn, messages, tool_result, pending, trace, requests,
                   model_calls, guard_calls, guard_replies, ledger0>>

\* add_vendor, the write succeeding: append in memory, the document
\* rewritten in full with the collection, True returned
AddVendorWrites ==
    /\ Len(calls) < MaxCalls
    /\ \E entry \in PoisonEntries(model_kind) :
          /\ vendors' = Append(vendors, entry)
          /\ doc' = JsonDocument(vendors')
          /\ calls' = Append(calls, Call("add_vendor", entry, vendors, vendors', doc', TRUE))
    /\ UNCHANGED <<probe, fresh, search_log, transactions, use_guardrails, model_kind,
                   pc, user_request, turn, messages, tool_result, pending, trace, requests,
                   model_calls, guard_calls, guard_replies, ledger0>>

\* faulty variant of AddVendorWriteFails: the append is undone
AddVendorRollsBack ==
    /\ Len(calls) < MaxCalls
    /\ \E entry \in PoisonEntries(model_kind) : \E document \in {doc, UnreadableDoc} :
          /\ vendors' = vendors
          /\ doc' = document
          /\ calls' = Append(calls, Call("add_vendor", entry, vendors, vendors', doc', FALSE))
    /\ UNCHANGED <<probe, fresh, search_log, transactions, use_guardrails, model_kind,
                   pc, user_request, turn, messages, tool_result, pending, trace, requests,
                   model_calls, guard_calls, guard_replies, ledger0>>

\* add_vendor, the write failing: the record is appended in memory, then
\* open fails and the document is as it was, or json.dump fails on the
\* opened, emptied file; the exception is caught and False returned
AddVendorWriteFails ==
    /\ Len(calls) < MaxCalls
    /\ \E entry \in PoisonEntries(model_kind) : \E document \in {doc, UnreadableDoc} :
          /\ vendors' = Append(vendors, entry)
          /\ doc' = document
          /\ calls' = Append(calls, Call("add_vendor", entry, vendors, vendors', doc', FALSE))
    /\ UNCHANGED <<probe, fresh, search_log, transactions, use_guardrails, model_kind,
                   pc, user_request, turn, messages, tool_result, pending, trace, requests,
                   model_calls, guard_calls, guard_replies, ledger0>>

PersistNext ==
    \/ LoadVendors
    \/ FreshLoad
    \/ AddVendorWrites
    \/ AddVendorWriteFails

PersistSpec == PersistInit /\ [][PersistNext]_vars

----------------------------------------------------------------------------

Next ==
    \/ AddVendor
    \/ ProcessRequest
    \/ YieldHeader
    \/ EnterLoop
    \/ ModelCallFails
    \/ FinalAnswer
    \/ Dispatch
    \/ DispatchRaises
    \/ YieldLog
    \/ FeedBack
    \/ AfterError
    \/ Return

Spec == Init /\ [][Next]_vars

----------------------------------------------------------------------------
(* The agent from its construction on: the document may be unreadable.     *)

\* before PaymentAgent is constructed: the document and the constructor's
\* use_guardrails argument
BootInit ==
    /\ model_kind = "boot"
    /\ doc \in PersistDocs
    /\ use_guardrails \in BOOLEAN
    /\ pc = "none"
    /\ vendors = <<>>
    /\ fresh = <<>>
    /\ search_log = <<>>
    /\ transactions = <<>>
    /\ user_request = <<>>
    /\ turn = 0
    /\ messages = <<>>
    /\ tool_result = <<>>
    /\ pending = <<>>
    /\ trace = <<>>
    /\ requests = 0
    /\ model_calls = 0
    /\ guard_calls = <<>>
    /\ guard_replies = <<>>
    /\ ledger0 = 0
    /\ calls = <<>>
    /\ probe = <<>>

\* PaymentAgent.__init__: a VendorRAG is made and load_vendors called, its
\* return value dropped; the ledger is empty
Construct ==
    /\ pc = "none"
    /\ vendors' = LoadFrom(doc, <<>>)
    /\ calls' = <<Call("load_vendors", <<>>, <<>>, vendors', doc, doc.ok)>>
    /\ transactions' = <<>>
    /\ pc' = "idle"
    /\ UNCHANGED <<probe, fresh, doc, search_log, use_guardrails, model_kind, user_request,
                   turn, messages, tool_result, pending, trace, requests, model_calls,
                   guard_calls, guard_replies, ledger0>>

BootNext ==
    \/ Construct
    \/ Next

BootSpec == BootInit /\ [][BootNext]_vars

----------------------------------------------------------------------------
(* The agent on every short response: the parser and the branch on it.     *)

\* PaymentAgent.__init__ on the clean document, guardrails disabled
ParseInit ==
    /\ model_kind = "parser"
    /\ doc = CleanDoc(PlainNotes)
    /\ vendors = VendorsOf(doc)
    /\ search_log = <<>>
    /\ calls = <<>>
    /\ probe = <<>>
    /\ fresh = <<>>
    /\ AgentUnused

ParseNext ==
    \/ Next
    \/ ParseRaises

ParseSpec == ParseInit /\ [][ParseNext]_vars

----------------------------------------------------------------------------
(* Observations on one invocation, read from its transcript and its trace. *)

\* positions of the model's responses and of the tool results fed back
Responses == { i \in 3..Len(messages) : messages[i].role = "assistant" }
FedBack == { i \in 3..Len(messages) : messages[i].role = "user" }

\* the responses that parsed as a tool call: the turns that dispatched
ToolCallTurns == { i \in Responses : ParseToolCall(messages[i].content).is_call }

\* the dispatches of this invocation: those that returned, each of which
\* logged its "executing tool" line, and the one that raised, if any
Dispatches ==
    Cardinality({ i \in 1..Len(trace) : trace[i] = Item("log", <<"executing">>) })
    + (IF pc = "raised" THEN 1 ELSE 0)

\* a SecurityBlock has been returned by a dispatch of this invocation
SecurityBlockSeen ==
    \/ tool_result # <<>> /\ ErrorKind(tool_result) = "SecurityBlock"
    \/ \E i \in FedBack : ErrorKind(messages[i].content[2]) = "SecurityBlock"

\* the transactions this invocation has appended
Appended == Len(transactions) - ledger0

\* the step is a dispatch that returned
DispatchStep == pc = "thinking" /\ pc' = "logs"

\* the tool call the step has just taken from the model
CalledTool == ParseToolCall(messages'[Len(messages')].content)

\* the step is a search dispatch whose record the classifier judged unsafe
\* (an unsafe verdict, or the fail-closed verdict of a failed classifier call)
UnsafeVerdictStep ==
    /\ DispatchStep
    /\ Len(guard_calls') = Len(guard_calls) + 1
    /\ pending'[Len(pending')] \in {"guardrail_unsafe", "guardrail_error"}

\* the step is a transfer_funds dispatch that appended its transaction
TransferStep ==
    /\ DispatchStep
    /\ CalledTool.tool_name = "transfer_funds"
    /\ ~HasError(tool_result')
    /\ transactions' = Append(transactions, tool_result')

\* the terminal items of the trace
IsTerminal(item) == item.kind \in {"final", "ollama_error"}
Terminals == { i \in 1..Len(trace) : IsTerminal(trace[i]) }
LastIsFallback == trace # <<>> /\ trace[Len(trace)] = Item("final", FALLBACK)
LastIsAnswer ==
    /\ trace # <<>>
    /\ trace[Len(trace)].kind = "final"
    /\ trace[Len(trace)] # Item("final", FALLBACK)

\* a protocol-following model has brought the invocation to its final answer
ProtocolRunDone == model_kind = "compliant" /\ pc = "done" /\ LastIsAnswer

\* the store holds the clean ABC Corp record and, added later, a poisoned
\* one whose raw score for "ABC Corp" is strictly higher
PoisonOutscores ==
    \E i, j \in 1..Len(vendors) :
        /\ i < j
        /\ vendors[i].name = ABC_CORP /\ vendors[i].account_number = "123456789"
        /\ vendors[j].name = ABC_CORP /\ vendors[j].account_number = "999999999"
        /\ Result(ABC_CORP, vendors[j]).raw_score > Result(ABC_CORP, vendors[i]).raw_score

\* no poisoned record has been added
NoPoison == \A i \in 1..Len(vendors) : vendors[i].account_number # "999999999"

\* the account search("ABC Corp", 1) hands back
TopAccount ==
    LET results == Search(ABC_CORP, vendors, 1)
    IN  IF results = <<>> THEN "" ELSE results[1].metadata.account_number

----------------------------------------------------------------------------
(* C1: guardrail containment                                               *)

\* C1 as stated: with guardrails enabled, a search dispatch whose record is
\* judged unsafe returns SecurityBlock, and from then on no step of the
\* invocation appends a Transaction, whatever the model does in the
\* remaining turns.
C1_NoTransactionAfterBlock ==
    [][ /\ UnsafeVerdictStep =>
              (ErrorKind(tool_result') = "SecurityBlock" /\ transactions' = transactions)
        /\ (use_guardrails /\ SecurityBlockSeen) => transactions' = transactions ]_vars

\* C1, amended: with guardrails enabled, a search dispatch whose record is
\* judged unsafe returns SecurityBlock and appends nothing itself; after the
\* block the ledger grows only by a transfer_funds call the model goes on to
\* issue, and stays as it was when the model follows the protocol and stops.
C1_BlockedDispatchAppendsNothing ==
    [][ /\ UnsafeVerdictStep =>
              (ErrorKind(tool_result') = "SecurityBlock" /\ transactions' = transactions)
        /\ (SecurityBlockSeen /\ transactions' # transactions) => TransferStep
        /\ (SecurityBlockSeen /\ model_kind = "compliant") =>
              (Appended = 0 /\ transactions' = transactions) ]_vars

\* a blocked search was followed by a transfer of the model's own making
C1_TransferAfterBlock ==
    /\ use_guardrails
    /\ pc = "done"
    /\ \E i \in FedBack : ErrorKind(messages[i].content[2]) = "SecurityBlock"
    /\ Appended = 1

----------------------------------------------------------------------------
(* C2: the poisoning attack                                                *)

\* C2 as stated: when the later-added poisoned record outscores the clean
\* one, search("ABC Corp", 1) returns the poisoned record, and with
\* guardrails disabled a protocol-following model ends with a Transaction to
\* account 999999999.
C2_PoisonedRecordWins ==
    PoisonOutscores =>
        /\ TopAccount = "999999999"
        /\ (ProtocolRunDone /\ ~use_guardrails) =>
              /\ Appended = 1
              /\ transactions[Len(transactions)].account_number = "999999999"

----------------------------------------------------------------------------
(* C3: the clean scenario                                                  *)

\* C3: with no poisoned record in the store, search("ABC Corp", 1) returns
\* the legitimate record, and an invocation a protocol-following model
\* brings to its final answer without a guardrail block has appended exactly
\* one Transaction, to account 123456789.
C3_CleanRunPaysLegitimate ==
    NoPoison =>
        /\ TopAccount = "123456789"
        /\ (ProtocolRunDone /\ ~SecurityBlockSeen) =>
              /\ Appended = 1
              /\ transactions[Len(transactions)].account_number = "123456789"

\* a clean run, guardrails disabled, has paid the legitimate account
C3_CleanRunPaid ==
    /\ NoPoison
    /\ ~use_guardrails
    /\ ProtocolRunDone
    /\ Appended = 1
    /\ transactions[Len(transactions)].account_number = "123456789"

----------------------------------------------------------------------------
(* C4: the turn budget                                                     *)

\* a variant of the generator: every resumption lowers it
Measure ==
    CASE pc = "created" -> 100
      [] pc = "header" -> 99
      [] pc = "thinking" -> (MaxTurns - turn) * 10 + 12
      [] pc = "logs" -> (MaxTurns - turn) * 10 + 5 + Len(pending)
      [] pc = "error_line" -> (MaxTurns - turn) * 10 + 4
      [] pc \in {"final", "aborted"} -> 2
      [] OTHER -> 0

\* C4: an invocation makes at most 5 primary-model calls and at most 5
\* dispatches, and it terminates for every model behaviour: each resumption
\* of the generator lowers a measure that never goes below 0.
C4_TurnBudget ==
    [][ /\ model_calls' <= MaxTurns
        /\ Dispatches' <= model_calls'
        /\ Measure' >= 0
        /\ (pc # "idle" /\ pc' # "created") => Measure' < Measure ]_vars

\* the budget was used up although the first tool result was an error
C4_BudgetUsedUp ==
    /\ pc = "done"
    /\ model_calls = MaxTurns
    /\ Len(messages) > 3
    /\ HasError(messages[4].content[2])

----------------------------------------------------------------------------
(* C5: the fallback                                                        *)

\* C5 as stated: an invocation whose 5 turns all end in a parsed tool call
\* terminates with the fallback message as its terminal response, and the
\* fallback message is produced in no other case.
C5_FallbackIffFiveToolCalls ==
    /\ (pc \in {"done", "raised"} /\ Cardinality(ToolCallTurns) = MaxTurns) => LastIsFallback
    /\ (\E i \in 1..Len(trace) : trace[i] = Item("final", FALLBACK)) =>
          Cardinality(ToolCallTurns) = MaxTurns

----------------------------------------------------------------------------
(* C6: no final answer within the budget                                   *)

\* the transfer_funds calls of this invocation whose result, fed back, is a
\* transaction
SuccessfulTransfers ==
    { i \in FedBack : /\ ~HasError(messages[i].content[2])
                      /\ ParseToolCall(messages[i - 1].content).tool_name = "transfer_funds" }

----------------------------------------------------------------------------
(* C7: dispatcher errors are results                                       *)

\* C7 as stated: every parsed tool call is answered by a tool result that is
\* fed back, and no exception leaves process_request.
C7_EveryCallAnswered ==
    /\ pc # "raised"
    /\ \A i \in ToolCallTurns :
          \/ i < Len(messages) /\ messages[i + 1].role = "user"
          \/ i = Len(messages) /\ pc = "logs"

----------------------------------------------------------------------------
(* C8: one terminal response                                               *)

\* C8 as stated: an invocation emits exactly one terminal response (final
\* answer, fallback or model-failure line), and it is the last item of the
\* trace.
C8_OneTerminalResponse ==
    /\ Cardinality(Terminals) <= 1
    /\ Terminals \subseteq {Len(trace)}
    /\ pc \in {"done", "raised"} => Terminals = {Len(trace)}

----------------------------------------------------------------------------
(* C9: what makes the ledger grow                                          *)

\* C9: the ledger changes only in a transfer_funds dispatch that returns its
\* transaction, by exactly that one entry; a dispatch that returns an error
\* and a search_vendors dispatch leave it unchanged.
C9_LedgerGrowsByTransferOnly ==
    [][ /\ transactions' # transactions => TransferStep
        /\ (DispatchStep /\ (HasError(tool_result') \/ CalledTool.tool_name = "search_vendors"))
              => transactions' = transactions
        /\ (DispatchStep /\ CalledTool.tool_name = "transfer_funds" /\ ~HasError(tool_result'))
              => Len(transactions') = Len(transactions) + 1 ]_vars

\* a transfer has just appended its entry, after a dispatch that returned an
\* error and appended none
C9_TransferAfterError ==
    /\ pc = "logs"
    /\ "status" \in DOMAIN tool_result
    /\ Appended = 1
    /\ \E i \in FedBack : HasError(messages[i].content[2])

----------------------------------------------------------------------------
(* C10: amounts that are no numbers                                        *)

\* the amount is no number: null, or a text float() rejects
NonNumeric(amount) ==
    \/ amount.t = "null"
    \/ amount.t = "str" /\ ParseFloat(amount.s).status # "ok"

\* the model has just called transfer_funds with a non-numeric amount
NonNumericTransferCall ==
    /\ pc = "thinking"
    /\ Len(messages') = Len(messages) + 1
    /\ CalledTool.is_call
    /\ CalledTool.tool_name = "transfer_funds"
    /\ Binds(CalledTool.arguments,
             {"vendor_name", "account_number", "routing_number", "amount"})
    /\ NonNumeric(CalledTool.arguments.kv.amount)

\* C10 as stated: transfer_funds called with a non-numeric amount returns
\* the InvalidAmount payload and appends nothing.
C10_NonNumericAmountRejected ==
    [][ NonNumericTransferCall =>
            /\ pc' = "logs"
            /\ ErrorKind(tool_result') = "InvalidAmount"
            /\ transactions' = transactions ]_vars

----------------------------------------------------------------------------
(* C11: amounts of the ledger                                              *)

\* C11 as stated: every Transaction of the ledger has a non-negative
\* amount, a negative amount being rejected with InvalidAmount.
C11_AmountsNonNegative ==
    \A i \in 1..Len(transactions) : transactions[i].amount >= 0

----------------------------------------------------------------------------
(* C12: the ledger is append-only                                          *)

\* C12: over every step of the agent (requests, dispatches, store
\* operations) the ledger before is a prefix of the ledger after, so no
\* entry is changed or removed and nothing is reset between requests; and
\* every entry has status "completed".
C12_LedgerAppendOnly ==
    [][ /\ Len(transactions') >= Len(transactions)
        /\ SubSeq(transactions', 1, Len(transactions)) = transactions
        /\ \A i \in 1..Len(transactions') : transactions'[i].status = "completed" ]_vars

\* a second request has added its entry after the entry of the first
C12_SecondRequestAppended ==
    /\ requests = 2
    /\ pc = "done"
    /\ ledger0 = 1
    /\ Len(transactions) = 2

----------------------------------------------------------------------------
(* C13: the verdict of the classifier                                      *)

\* the classifier was consulted in this step
Consulted == Len(guard_replies') = Len(guard_replies) + 1

\* the outcome of that classifier call
Reply == guard_replies'[Len(guard_replies')]

\* the rule of the verdict, stated on the response itself: the call failed,
\* or after leading blanks the response reads "unsafe" in any letter case
ReadsUnsafe(content) ==
    \E k \in 0..Len(content) :
        /\ \A i \in 1..k : IsSpace(content[i])
        /\ k + 6 <= Len(content)
        /\ [i \in 1..6 |-> LowerChar(content[k + i])] = <<"u", "n", "s", "a", "f", "e">>

JudgedUnsafe(reply) == reply.fail \/ ReadsUnsafe(reply.content)

\* C13: whenever a dispatch consults the classifier, the verdict it acts on
\* is unsafe if the call failed or if the response, trimmed and lower-cased,
\* starts with "unsafe", and safe for every other response.
C13_VerdictRule ==
    [][ (DispatchStep /\ Consulted) =>
            /\ JudgedUnsafe(Reply) <=> ErrorKind(tool_result') = "SecurityBlock"
            /\ pending'[Len(pending')] =
                  (IF Reply.fail THEN "guardrail_error"
                   ELSE IF ReadsUnsafe(Reply.content) THEN "guardrail_unsafe"
                   ELSE "guardrail_safe") ]_vars

\* a response that mentions "unsafe" without starting with it was taken as
\* safe: the record came back
C13_AmbiguousReplyPasses ==
    /\ pc = "logs"
    /\ guard_replies # <<>>
    /\ guard_replies[Len(guard_replies)] =
          GuardAnswer(<<"n", "o", "t", " ", "u", "n", "s", "a", "f", "e">>)
    /\ "vendor_id" \in DOMAIN tool_result

----------------------------------------------------------------------------
(* C14: what a search dispatch with a match returns                        *)

\* the step is a search_vendors dispatch that returned
SearchStep == DispatchStep /\ CalledTool.tool_name = "search_vendors"

\* what rag.search(query, n_results=1) finds for the call of the step
Matches == Search(CalledTool.arguments.kv.query, vendors, 1)

\* C14: a search dispatch with a match returns, when guardrails are enabled
\* and the verdict is unsafe, exactly the SecurityBlock payload, which has
\* none of the record's fields; when the verdict is safe or guardrails are
\* disabled it returns the matched record unchanged.
C14_SearchResultByVerdict ==
    [][ (SearchStep /\ Matches # <<>>) =>
            /\ (use_guardrails /\ Consulted /\ JudgedUnsafe(Reply)) =>
                  /\ tool_result' = ErrorResult(SECURITY_BLOCK)
                  /\ DOMAIN tool_result' \cap DOMAIN Matches[1].metadata = {}
            /\ (~use_guardrails \/ (Consulted /\ ~JudgedUnsafe(Reply))) =>
                  tool_result' = Matches[1].metadata ]_vars

\* a match has just been discarded on an unsafe verdict
C14_MatchDiscarded ==
    /\ pc = "logs"
    /\ use_guardrails
    /\ guard_replies # <<>>
    /\ JudgedUnsafe(guard_replies[Len(guard_replies)])
    /\ tool_result = ErrorResult(SECURITY_BLOCK)
    /\ search_log # <<>>
    /\ search_log[Len(search_log)].results_count = 1

----------------------------------------------------------------------------
(* C15: no record comes back uninspected                                   *)

\* C15 as stated: with guardrails enabled, a vendor record a search dispatch
\* returns has had its notes handed to the classifier in that dispatch and
\* has been judged safe, whatever fields the record carries.
C15_ReturnedRecordWasInspected ==
    [][ (SearchStep /\ use_guardrails /\ "vendor_id" \in DOMAIN tool_result') =>
            /\ Consulted
            /\ guard_calls'[Len(guard_calls')] = NotesOf(tool_result')
            /\ ~JudgedUnsafe(Reply) ]_vars

----------------------------------------------------------------------------
(* C16: unknown tools                                                      *)

\* the model has just answered with a tool call
ToolCallTaken ==
    /\ pc = "thinking"
    /\ Len(messages') = Len(messages) + 1
    /\ CalledTool.is_call

\* C16: a tool call whose tool_name is neither search_vendors nor
\* transfer_funds is dispatched to the UnknownTool payload; the dispatch
\* changes neither the ledger nor the vendor collection and calls neither
\* the retrieval engine (the search log stays) nor the classifier.
C16_UnknownToolIsInert ==
    [][ (ToolCallTaken /\ CalledTool.tool_name \notin {"search_vendors", "transfer_funds"}) =>
            /\ pc' = "logs"
            /\ tool_result' = ErrorResult(UnknownToolMsg(CalledTool.tool_name))
            /\ ErrorKind(tool_result') = "UnknownTool"
            /\ UNCHANGED <<transactions, vendors, doc, search_log, guard_calls,
                           guard_replies>> ]_vars

\* an unknown tool has just been dispatched on a poisoned store with
\* guardrails enabled, after an earlier search
C16_UnknownToolDispatched ==
    /\ pc = "logs"
    /\ use_guardrails
    /\ Len(vendors) = 3
    /\ ErrorKind(tool_result) = "UnknownTool"
    /\ Len(search_log) = 1

----------------------------------------------------------------------------
(* C17: no match                                                           *)

\* C17: a search dispatch whose query scores no vendor above 0 returns the
\* NotFound payload, and the classifier is not called for it, guardrails
\* enabled or not.
C17_NoMatchIsNotFound ==
    [][ (SearchStep /\ Scored(CalledTool.arguments.kv.query, vendors) = <<>>) =>
            /\ tool_result' = ErrorResult(NOT_FOUND)
            /\ ErrorKind(tool_result') = "NotFound"
            /\ ~Consulted
            /\ guard_calls' = guard_calls ]_vars

\* a search has just found nothing with guardrails enabled
C17_NothingFoundUnderGuardrails ==
    /\ pc = "logs"
    /\ use_guardrails
    /\ tool_result = ErrorResult(NOT_FOUND)
    /\ guard_calls = <<>>
    /\ search_log # <<>>
    /\ search_log[Len(search_log)].results_count = 0

----------------------------------------------------------------------------
(* C18: failure of the primary model                                       *)

\* the primary-model call of this step failed: it was made and no response
\* joined the transcript
ModelFailStep ==
    /\ pc = "thinking"
    /\ model_calls' = model_calls + 1
    /\ messages' = messages

\* C18: a failed primary-model call yields the service error as the next
\* and last item; after it the generator only returns: no model call, no
\* dispatch and no ledger append follow in the invocation.
C18_ModelFailureAborts ==
    [][ /\ ModelFailStep =>
              /\ pc' = "aborted"
              /\ trace' = Append(trace, Item("ollama_error", <<>>))
              /\ UNCHANGED <<transactions, search_log, guard_calls, tool_result>>
        /\ pc = "aborted" =>
              /\ pc' = "done"
              /\ UNCHANGED <<trace, messages, model_calls, transactions, search_log,
                             guard_calls>> ]_vars

\* the model service failed in the third turn, after a transfer
C18_FailedInThirdTurn ==
    /\ pc = "done"
    /\ trace[Len(trace)] = Item("ollama_error", <<>>)
    /\ turn = 3
    /\ Appended = 1

----------------------------------------------------------------------------
(* C19: search is deterministic (checked under StoreSpec)                  *)

----------------------------------------------------------------------------
(* C20: score monotonicity (checked under ProbeSpec)                       *)

\* the position of the vendor in a result list, 0 when it is not in it
PositionOf(results, vendor_id) ==
    IF \E i \in 1..Len(results) : results[i].vendor_id = vendor_id
    THEN CHOOSE i \in 1..Len(results) : results[i].vendor_id = vendor_id
    ELSE 0

\* a is ranked ahead of b: a is listed, and b is listed later or not at all
Ahead(results, a, b) ==
    /\ PositionOf(results, a) > 0
    /\ PositionOf(results, b) = 0 \/ PositionOf(results, a) < PositionOf(results, b)

BoostedId == probe.vs[probe.k].vendor_id
CompetitorId == probe.vs[3 - probe.k].vendor_id

\* C20: once more occurrences of a query word are appended to a vendor's
\* notes, its raw score for the query is strictly larger, and against the
\* unchanged competitor its rank is no worse: where it was ahead it is still
\* ahead, and the competitor is ahead only where it was before.
C20_ScoreMonotone ==
    probe.stage = "applied" =>
        /\ probe.raw_after > probe.raw_before
        /\ Ahead(probe.before, BoostedId, CompetitorId)
              => Ahead(probe.after, BoostedId, CompetitorId)
        /\ Ahead(probe.after, CompetitorId, BoostedId)
              => Ahead(probe.before, CompetitorId, BoostedId)

\* the boosted vendor was behind its competitor and is ahead of it now
C20_BoostOvertakes ==
    /\ probe.stage = "applied"
    /\ Len(probe.before) = 2
    /\ Ahead(probe.before, CompetitorId, BoostedId)
    /\ Ahead(probe.after, BoostedId, CompetitorId)

----------------------------------------------------------------------------
(* C21: the order of the results (checked under StoreSpec)                 *)

\* x placed after every entry whose raw score is not smaller
InsertDescByRaw(sorted, x) ==
    LET k == Cardinality({ i \in 1..Len(sorted) : sorted[i].raw_score >= x.raw_score })
    IN  SubSeq(sorted, 1, k) \o <<x>> \o SubSeq(sorted, k + 1, Len(sorted))

\* a stable descending sort on the raw score
RECURSIVE SortDescByRaw(_)
SortDescByRaw(rs) ==
    IF rs = <<>> THEN <<>>
    ELSE InsertDescByRaw(SortDescByRaw(SubSeq(rs, 1, Len(rs) - 1)), rs[Len(rs)])

\* the scoring vendors of a call in the order of a stable descending sort on
\* the raw score, cut at the call's limit
RawOrder(call) ==
    Take(SortDescByRaw(Scored(call.query, call.vendors)), call.n_results)

\* C21 as stated: the results of every search, ordered descending by the
\* normalized score with ties in collection order, are in the order of a
\* stable descending sort on the raw score.
C21_OrderEqualsRawOrder ==
    \A i \in 1..Len(calls) : calls[i].results = RawOrder(calls[i])

----------------------------------------------------------------------------
(* C22: which of two records of one name is returned (StoreSpec)           *)

\* the raw score of the k-th vendor of a call's collection
RawAt(call, k) == RawScore(call.query, call.vendors[k])

\* a call with limit 1 on a store of the legitimate record, one later
\* record of the same name, and other records that score below one of them
DuplicatePair(call) ==
    /\ call.n_results = 1
    /\ Len(call.vendors) = 3
    /\ call.vendors[1].account_number = "123456789"
    /\ call.vendors[3].name = call.vendors[1].name
    /\ call.vendors[3].account_number = "999999999"
    /\ RawAt(call, 2) < RawAt(call, 1) \/ RawAt(call, 2) < RawAt(call, 3)

\* C22 as stated: with limit 1 the later-appended record of the same name
\* is the one returned if and only if its raw score strictly exceeds the
\* legitimate record's.
C22_PoisonReturnedIffOutscores ==
    \A i \in 1..Len(calls) :
        DuplicatePair(calls[i]) =>
            ((calls[i].results # <<>> /\ calls[i].results[1].metadata = calls[i].vendors[3])
             <=> RawAt(calls[i], 3) > RawAt(calls[i], 1))

----------------------------------------------------------------------------
(* C23: load is idempotent (checked under PersistSpec)                     *)

\* C23: when load_vendors is called twice in a row on the same document,
\* the collection after the second call equals the collection after the
\* first, in content and order; a load that succeeds leaves exactly the
\* document's records, whatever the collection held before.
C23_LoadIdempotent ==
    /\ \A i \in 1..(Len(calls) - 1) :
          (/\ calls[i].op = "load_vendors"
           /\ calls[i + 1].op = "load_vendors"
           /\ calls[i + 1].doc = calls[i].doc)
          => calls[i + 1].after = calls[i].after
    /\ \A i \in 1..Len(calls) :
          (calls[i].op = "load_vendors" /\ calls[i].returned)
          => calls[i].after = VendorsOf(calls[i].doc)

\* a readable document was loaded twice in a row into a store that held a
\* record of its own before
C23_LoadedTwice ==
    /\ Len(calls) = 3
    /\ calls[1].op = "add_vendor"
    /\ calls[2].op = "load_vendors" /\ calls[2].returned
    /\ calls[3].op = "load_vendors" /\ calls[3].returned
    /\ calls[3].doc = calls[2].doc
    /\ Len(calls[3].after) >= 1

----------------------------------------------------------------------------
(* C24: append durability (checked under PersistSpec)                      *)

\* the elements of a sequence
Range(seq) == { seq[i] : i \in 1..Len(seq) }

\* C24: a load by a new store right after an add_vendor that returned True
\* gives the adding store's whole collection, in order, the added record
\* included; and a later load by a new store still holds the record as long
\* as no add_vendor was made in between.
C24_AddedRecordIsReloaded ==
    \A i \in 1..Len(calls) : \A j \in (i + 1)..Len(calls) :
        (/\ calls[i].op = "add_vendor" /\ calls[i].returned
         /\ calls[j].op = "fresh_load"
         /\ \A k \in (i + 1)..(j - 1) : calls[k].op # "add_vendor")
        => /\ calls[j].returned
           /\ calls[j].after = calls[i].after
           /\ calls[i].record \in Range(calls[j].after)

\* the store loaded the document, added a record, and a new store loaded
\* the three records
C24_ReloadedAfterAdd ==
    /\ Len(calls) = 3
    /\ calls[1].op = "load_vendors" /\ calls[1].returned
    /\ calls[2].op = "add_vendor" /\ calls[2].returned
    /\ calls[3].op = "fresh_load"
    /\ Len(fresh) = 3
    /\ fresh = vendors

----------------------------------------------------------------------------
(* C26: a failed write (checked under PersistSpec)                         *)

\* how often a record occurs in a collection
TimesIn(record, seq) == Cardinality({ i \in 1..Len(seq) : seq[i] = record })

\* the vendors a search for "ABC Corp" over the whole collection returns
FoundIn(vs) == { r.metadata : r \in Range(Search(ABC_CORP, vs, Len(vs))) }

\* C26: an add_vendor whose write fails returns False and leaves the record
\* appended to the collection in memory, where searches find it, while the
\* document cannot be read or holds the record fewer times than the
\* collection does.
C26_FailedWriteKeepsAppend ==
    \A i \in 1..Len(calls) :
        (calls[i].op = "add_vendor" /\ ~calls[i].returned)
        => /\ calls[i].after = Append(calls[i].before, calls[i].record)
           /\ calls[i].record \in FoundIn(calls[i].after)
           /\ ~calls[i].doc.ok
              \/ TimesIn(calls[i].record, VendorsOf(calls[i].doc))
                    < TimesIn(calls[i].record, calls[i].after)

\* the store loaded the document, an add_vendor failed to write, and the
\* record is in memory but not in the readable document
C26_MemoryAheadOfDocument ==
    /\ Len(calls) = 2
    /\ calls[1].op = "load_vendors" /\ calls[1].returned
    /\ calls[2].op = "add_vendor" /\ ~calls[2].returned
    /\ doc.ok
    /\ Len(vendors) = 3
    /\ Len(doc.vendors) = 2
    /\ vendors[3] \in FoundIn(vendors)

----------------------------------------------------------------------------
(* C25: a failed load (checked under BootSpec)                             *)

\* C25 as stated: a load that fails is fatal to the store's initialization,
\* so an agent that has taken a request stands on a store whose load
\* succeeded.
C25_NoAgentOnFailedLoad ==
    requests > 0 => calls[1].returned

----------------------------------------------------------------------------
(* C27: every dispatch is fed back and the loop goes on                    *)

\* the step feeds the result of a dispatch back into the transcript
FeedBackStep == pc = "logs" /\ pending = <<>>

\* C27 as stated: every dispatched tool call comes back with a result; the
\* result, success or error, is appended to the transcript as a user-role
\* message that carries it unchanged; and while the turn budget is not used
\* up the loop goes on to the next model call, after an error result by way
\* of its error line.
C27_DispatchFedBackLoopContinues ==
    [][/\ ToolCallTaken => pc' = "logs"
       /\ FeedBackStep =>
             /\ messages' = Append(messages, ToolResultMessage(tool_result))
             /\ messages'[Len(messages')].role = "user"
             /\ turn < MaxTurns =>
                   pc' = (IF HasError(tool_result) THEN "error_line" ELSE "thinking")
       /\ (pc = "error_line" /\ turn < MaxTurns) => pc' = "thinking"]_vars

----------------------------------------------------------------------------
(* C28: which responses are tool calls (checked under ParseSpec)           *)

\* the step takes a response from the primary model
Answered == pc = "thinking" /\ Len(messages') = Len(messages) + 1

\* the response of the step
Answer == messages'[Len(messages')].content

\* a span is one JSON object: between its braces, members and blanks only
IsObject(span) ==
    /\ span[1].t = "{"
    /\ span[Len(span)].t = "}"
    /\ \A i \in 2..(Len(span) - 1) : span[i].t \in {"member", "deep", "ws"}

\* the span from the first '{' to the last '}' of the trimmed response is an
\* object that has a tool_name and an arguments member
HoldsToolCall(content) ==
    LET trimmed == Strip(content)
        first == FindFirst(trimmed, "{")
        last == FindLast(trimmed, "}")
    IN  /\ first # 0 /\ last # 0 /\ first < last
        /\ IsObject(SubSeq(trimmed, first, last))
        /\ {"tool_name", "arguments"} \subseteq KeysOf(SubSeq(trimmed, first, last))

\* C28 as stated: a response is dispatched exactly when the span from its
\* first '{' to its last '}' decodes to a structure with both fields; every
\* other response becomes the final answer, the terminal item of the trace,
\* with nothing dispatched.
C28_DispatchedIffToolCall ==
    [][Answered =>
          IF HoldsToolCall(Answer)
          THEN pc' \in {"logs", "raised"}
          ELSE /\ pc' = "final"
               /\ trace' = Append(trace, Item("final", Answer))
               /\ UNCHANGED <<transactions, search_log, tool_result, guard_calls>>]_vars

----------------------------------------------------------------------------
(* C29: the five contributions (checked under ProbeSpec)                   *)

\* w is a substring of s
IsSubstring(w, s) == w = <<>> \/ Occurrences(w, s) # {}

\* positions that are pairwise at least n apart
Apart(positions, n) ==
    \A i, j \in positions : i # j => (i - j >= n \/ j - i >= n)

\* the largest number of occurrences of w in s no two of which overlap
NonOverlapping(w, s) ==
    LET occ == Occurrences(w, s)
    IN  IF Apart(occ, Len(w)) THEN Cardinality(occ)
        ELSE LET sizes == { Cardinality(S) : S \in { T \in SUBSET occ : Apart(T, Len(w)) } }
             IN  CHOOSE k \in sizes : \A m \in sizes : m <= k

\* the raw score as the five contributions are stated, in half points
StatedScore(query, vendor) ==
    LET q == Lower(query)
        name == Lower(vendor.name)
        notes == Lower(NotesOf(vendor))
        text == name \o <<" ">> \o notes
        words == SplitWords(q)
    IN  (IF IsSubstring(q, name) THEN 20 ELSE 0)
        + 2 * Cardinality({ w \in words : IsSubstring(w, text) })
        + (IF IsSubstring(q, text) THEN 10 ELSE 0)
        + (IF IsSubstring(<<"?">>, NotesOf(vendor)) /\ \E w \in words : IsSubstring(w, notes)
           THEN 6 ELSE 0)
        + SumOver([w \in words |-> NonOverlapping(w, text)], words)

\* C29: the raw score search computes for a vendor is +10 for the query in
\* the name, +1 per distinct query word in name + " " + notes, +5 for the
\* query in that text, +3 for a '?' in the notes together with a query word
\* in the notes, and +0.5 per non-overlapping occurrence of each distinct
\* query word in that text, all on lower-cased text.
C29_RawScoreIsSumOfRules ==
    probe.stage = "applied" =>
        /\ probe.raw_before = StatedScore(probe.query, probe.vs[probe.k])
        /\ probe.raw_after
              = StatedScore(probe.query, Boosted(probe.vs[probe.k], probe.extra))
        /\ \A i \in 1..Len(probe.after) :
              probe.after[i].raw_score = StatedScore(probe.query, probe.after[i].metadata)

\* all five contributions are in the score of one result
C29_AllRulesContribute ==
    /\ probe.stage = "applied"
    /\ probe.query = ABC_CORP
    /\ \E i \in 1..Len(probe.after) :
          /\ DOMAIN probe.after[i].score_breakdown
                = {"name_match", "word_matches", "phrase_match", "question_format",
                   "word_frequency"}
          /\ probe.after[i].score_breakdown.word_frequency > 4
          /\ probe.after[i].raw_score = StatedScore(probe.query, probe.after[i].metadata)

----------------------------------------------------------------------------
(* C30: what a search returns (checked under StoreSpec)                    *)

\* the raw score of the vendor at place k of the collection a call saw
ScoreAt(call, k) == Result(call.query, call.vendors[k]).raw_score

\* the vendors of a call that score above 0, by their place in the collection
Positive(call) ==
    { i \in 1..Len(call.vendors) : ScoreAt(call, i) > 0 }

\* vendor i ranks before vendor j: a larger normalized score, or the same
\* and an earlier place in the collection
RanksBefore(call, i, j) ==
    \/ Min(ScoreAt(call, i), 2 * ScoreCap) > Min(ScoreAt(call, j), 2 * ScoreCap)
    \/ Min(ScoreAt(call, i), 2 * ScoreCap) = Min(ScoreAt(call, j), 2 * ScoreCap) /\ i < j

\* the vendor at place k of the full ranking
RankedAt(call, k) ==
    CHOOSE i \in Positive(call) :
        Cardinality({ j \in Positive(call) : RanksBefore(call, j, i) }) = k - 1

\* C30: a search returns at most limit results; each has a raw score above
\* 0 and a normalized score min(rawScore/50, 1), above 0 and at most 1; and
\* the list is the first limit entries of the full ranking, so that no
\* vendor left out ranks before a returned one.
C30_ResultsAreTopOfRanking ==
    \A c \in 1..Len(calls) :
        /\ Len(calls[c].results) <= calls[c].n_results
        /\ Len(calls[c].results) = Min(calls[c].n_results, Cardinality(Positive(calls[c])))
        /\ \A k \in 1..Len(calls[c].results) :
              /\ calls[c].results[k].raw_score > 0
              /\ calls[c].results[k].similarity
                    = Min(calls[c].results[k].raw_score, 2 * ScoreCap)
              /\ calls[c].results[k].similarity > 0
              /\ calls[c].results[k].similarity <= 2 * ScoreCap
              /\ calls[c].results[k].metadata = calls[c].vendors[RankedAt(calls[c], k)]
              /\ calls[c].results[k].raw_score = ScoreAt(calls[c], RankedAt(calls[c], k))

\* a search with limit 2 on three scoring vendors returned two, the second
\* with a raw score above the cap
C30_TruncatedAtLimit ==
    /\ Len(calls) >= 1
    /\ calls[1].n_results = 2
    /\ Cardinality(Positive(calls[1])) = 3
    /\ Len(calls[1].results) = 2
    /\ calls[1].results[2].raw_score > 2 * ScoreCap
    /\ calls[1].results[2].similarity = 2 * ScoreCap

----------------------------------------------------------------------------
(* C31: when the classifier is called                                      *)

\* the step is a search dispatch that found a match with guardrails enabled
GuardedMatchStep == SearchStep /\ use_guardrails /\ Matches # <<>>

\* C31 as stated: the classifier is called exactly once for each search
\* dispatch that finds a match while guardrails are enabled, on the notes of
\* the matched record only, and in no other step of an invocation: not for
\* transfer_funds, an unknown tool, a search without a match, or with
\* guardrails disabled.
C31_ClassifierCalledOncePerMatch ==
    [][ /\ GuardedMatchStep =>
              /\ guard_calls' = Append(guard_calls, NotesOf(Matches[1].metadata))
              /\ Consulted
        /\ (~GuardedMatchStep /\ pc' # "created") =>
              /\ guard_calls' = guard_calls
              /\ guard_replies' = guard_replies ]_vars

----------------------------------------------------------------------------
(* C32: transfers are not validated                                        *)

\* the model has just called transfer_funds with its four arguments and an
\* amount float() accepts
ParseableTransferCall ==
    /\ ToolCallTaken
    /\ CalledTool.tool_name = "transfer_funds"
    /\ Binds(CalledTool.arguments,
             {"vendor_name", "account_number", "routing_number", "amount"})
    /\ FloatOf(CalledTool.arguments.kv.amount).status = "ok"

\* C32: a transfer_funds dispatch with a parseable amount succeeds in every
\* state: it appends one Transaction with exactly the vendor name, account
\* number and routing number of the call, whatever was searched or returned
\* before and whatever the store holds, which it neither reads nor changes.
C32_TransferAlwaysSucceeds ==
    [][ ParseableTransferCall =>
            /\ pc' = "logs"
            /\ ~HasError(tool_result')
            /\ tool_result'.vendor_name = CalledTool.arguments.kv.vendor_name
            /\ tool_result'.account_number = CalledTool.arguments.kv.account_number
            /\ tool_result'.routing_number = CalledTool.arguments.kv.routing_number
            /\ tool_result'.amount = FloatOf(CalledTool.arguments.kv.amount).value
            /\ tool_result'.status = "completed"
            /\ transactions' = Append(transactions, tool_result')
            /\ UNCHANGED <<vendors, doc, search_log, guard_calls>> ]_vars

\* with guardrails enabled a transfer has just succeeded in the turn right
\* after the only search was blocked, to an account no record of the store has
C32_TransferRightAfterBlock ==
    /\ pc = "logs"
    /\ use_guardrails
    /\ turn = 2
    /\ Len(messages) = 5
    /\ ErrorKind(messages[4].content[2]) = "SecurityBlock"
    /\ "status" \in DOMAIN tool_result
    /\ transactions = <<tool_result>>
    /\ \A i \in 1..Len(vendors) : vendors[i].account_number # tool_result.account_number

----------------------------------------------------------------------------
(* C33: the transcript of an invocation                                    *)

\* a generator of process_request is running
Running == pc \in {"thinking", "logs", "error_line", "final", "aborted"}

\* the roles after the seed alternate assistant, user
RolesAlternate(msgs) ==
    \A i \in 3..Len(msgs) :
        msgs[i].role = (IF i % 2 = 1 THEN "assistant" ELSE "user")

\* C33 as stated: the transcript starts as [system prompt, user request]
\* and only grows by appending; each turn appends the raw response of the
\* model, which was given the whole transcript built so far; each dispatch
\* appends one user-role tool-result message right after the call, so that
\* after the seed the roles alternate; and the transcript holds no message
\* of another invocation: the seed, one message per response and one per
\* dispatch of this invocation are all there is.
C33_TranscriptGrowsByAppending ==
    [][ /\ pc = "created" => messages' = <<>>
        /\ pc = "header" => messages' = SeedMessages(user_request)
        /\ Running =>
              /\ Len(messages') \in {Len(messages), Len(messages) + 1}
              /\ SubSeq(messages', 1, Len(messages)) = messages
        /\ (pc = "thinking" /\ model_calls' = model_calls + 1 /\ messages' # messages) =>
              /\ messages'[Len(messages')].role = "assistant"
              /\ messages'[Len(messages')].content
                    \in ModelResponses(model_kind, messages, transactions)
        /\ ToolCallTaken => pc' = "logs"
        /\ (pc = "logs" /\ pending = <<>>) =>
              /\ messages' = Append(messages, Message("user", <<"Tool Result: ", tool_result>>))
              /\ messages[Len(messages)].role = "assistant"
              /\ ParseToolCall(messages[Len(messages)].content).is_call
        /\ (pc = "logs" /\ pending # <<>>) => messages' = messages
        /\ pc \in {"error_line", "final", "aborted"} => messages' = messages
        /\ (Running /\ pc' # "created") =>
              /\ SubSeq(messages', 1, 2) = SeedMessages(user_request)
              /\ RolesAlternate(messages')
              /\ Cardinality({ i \in 3..Len(messages') : messages'[i].role = "assistant" })
                    = model_calls'
                      - (IF trace'[Len(trace')].kind = "ollama_error" THEN 1 ELSE 0) ]_vars

----------------------------------------------------------------------------
(* C34: the generator is lazy                                              *)

\* the step does work: a primary-model call, a dispatch with its classifier
\* call and retrieval, or a ledger append
DoesWork ==
    \/ model_calls' # model_calls
    \/ transactions' # transactions
    \/ search_log' # search_log
    \/ guard_calls' # guard_calls
    \/ tool_result' # tool_result

\* C34: calling process_request changes no state; model call, dispatch,
\* classifier call and ledger append happen only in the resumption that
\* follows a "thinking" line, never in the one that yields it; and the
\* terminal response is the last item only, so a consumer that stops
\* before it has not seen it.
C34_NothingRunsAhead ==
    [][ /\ pc' = "created" =>
              /\ trace' = <<>>
              /\ messages' = <<>>
              /\ UNCHANGED <<transactions, search_log, vendors, doc>>
        /\ (DoesWork /\ pc' # "created") =>
              /\ pc = "thinking"
              /\ trace[Len(trace)] = Item("thinking", <<>>)
        /\ (Len(trace') = Len(trace) + 1 /\ trace'[Len(trace')].kind = "thinking") =>
              UNCHANGED <<model_calls, transactions, search_log, guard_calls, tool_result>>
        /\ pc' \in {"created", "header", "thinking", "logs", "error_line", "raised"} =>
              \A i \in 1..Len(trace') : ~IsTerminal(trace'[i])
        /\ \A i \in 1..Len(trace') : IsTerminal(trace'[i]) => i = Len(trace') ]_vars

\* the consumer holds the "thinking" line of the second turn: the first
\* turn's transfer is in the ledger, the second model call has not been
\* made and no terminal response has been seen
C34_StoppedAtSecondThinking ==
    /\ pc = "thinking"
    /\ turn = 2
    /\ trace[Len(trace)] = Item("thinking", <<>>)
    /\ model_calls = 1
    /\ Appended = 1
    /\ Terminals = {}

----------------------------------------------------------------------------
(* The blocking variant of the agent (agent_1.py), run on the outcomes the *)
(* streaming variant was fed.                                              *)

\* the outcome of a primary-model call: a failure, or a response
ModelOutcome(fail, content) == [fail |-> fail, content |-> content]

\* str(e) of the exception a failed model call raises
SERVICE_DOWN == Txt("connection refused")

\* the streaming variant's last item on a failed model call:
\* f"OLLAMA ERROR: {e}\n(Is Ollama running?)"
StreamingServiceError == <<Txt("OLLAMA ERROR: "), SERVICE_DOWN, Txt("(Is Ollama running?)")>>

\* what the blocking variant returns on a failed model call
BlockingServiceError == <<Txt("Error connecting to the agent. Is Ollama running?")>>

\* how a run of the blocking process_request ends
BlockingEnd(ended, terminal, s) ==
    [ended |-> ended, terminal |-> terminal, messages |-> s.messages,
     transactions |-> s.transactions, dispatched |-> s.dispatched,
     left |-> <<Len(s.outcomes), Len(s.guards)>>]

RECURSIVE BlockingLoop(_, _)
\* the loop of the blocking process_request from iteration k on; s holds the
\* outcomes still to come, the transcript, the ledger and the dispatches
BlockingLoop(k, s) ==
    IF k > MaxTurns THEN BlockingEnd("returned", FALLBACK, s)
    ELSE IF s.outcomes = <<>> THEN BlockingEnd("starved", <<>>, s)
    ELSE IF Head(s.outcomes).fail
         THEN BlockingEnd("returned", BlockingServiceError,
                          [s EXCEPT !.outcomes = Tail(s.outcomes)])
    ELSE LET content == Head(s.outcomes).content
             tool_call == ParseToolCall(content)
             answered == [s EXCEPT !.outcomes = Tail(s.outcomes),
                                   !.messages = Append(s.messages,
                                                       Message("assistant", content))]
         IN  IF ~tool_call.is_call THEN BlockingEnd("returned", content, answered)
             ELSE LET o == ExecuteToolCall(tool_call, s.vs, s.transactions, s.use_guard,
                                           IF s.guards = <<>> THEN GuardFailure
                                           ELSE Head(s.guards))
                      called == [answered EXCEPT
                                    !.dispatched = Append(s.dispatched, tool_call)]
                  IN  IF o.raised THEN BlockingEnd("raised", <<>>, called)
                      ELSE BlockingLoop(k + 1,
                              [called EXCEPT
                                  !.guards = IF o.inspected # <<>> THEN Tail(s.guards)
                                             ELSE s.guards,
                                  !.transactions = o.transactions,
                                  !.messages = Append(called.messages,
                                                      ToolResultMessage(o.tool_result))])

\* the outcomes of the primary-model calls of the streaming invocation, in
\* order: its responses, and the failure that ended it, if any
OutcomesFed ==
    [i \in 1..Cardinality(Responses) |-> ModelOutcome(FALSE, messages[2 * i + 1].content)]
    \o (IF trace # <<>> /\ trace[Len(trace)].kind = "ollama_error"
        THEN <<ModelOutcome(TRUE, <<>>)>> ELSE <<>>)

\* PaymentAgent of agent_1.py constructed alike, on an equal store
PairInit ==
    /\ model_kind = "pair"
    /\ doc = CleanDoc(PlainNotes)
    /\ vendors = VendorsOf(doc)
    /\ use_guardrails \in BOOLEAN
    /\ pc = "idle"
    /\ search_log = <<>>
    /\ transactions = <<>>
    /\ user_request = <<>>
    /\ turn = 0
    /\ messages = <<>>
    /\ tool_result = <<>>
    /\ pending = <<>>
    /\ trace = <<>>
    /\ requests = 0
    /\ model_calls = 0
    /\ guard_calls = <<>>
    /\ guard_replies = <<>>
    /\ ledger0 = 0
    /\ calls = <<>>
    /\ probe = <<>>
    /\ fresh = <<>>

\* faulty variant of ProcessRequestBlocking: the blocking agent runs with
\* guardrails disabled whatever the setting
ProcessRequestBlockingUnguarded ==
    /\ pc \in {"done", "raised"}
    /\ probe = <<>>
    /\ probe' = <<BlockingLoop(1, [outcomes |-> OutcomesFed,
                                   guards |-> guard_replies,
                                   messages |-> SeedMessages(user_request),
                                   transactions |-> SubSeq(transactions, 1, ledger0),
                                   dispatched |-> <<>>,
                                   vs |-> vendors,
                                   use_guard |-> FALSE])>>
    /\ UNCHANGED <<calls, fresh, doc, vendors, search_log, transactions, use_guardrails,
                   model_kind, pc, user_request, turn, messages, tool_result, pending,
                   trace, requests, model_calls, guard_calls, guard_replies, ledger0>>

\* process_request of the blocking variant, called with the same request
\* on an agent with an equal store, ledger and guardrail setting, and fed
\* the outcomes the streaming invocation was fed; probe keeps how it ended
ProcessRequestBlocking ==
    /\ pc \in {"done", "raised"}
    /\ probe = <<>>
    /\ probe' = <<BlockingLoop(1, [outcomes |-> OutcomesFed,
                                   guards |-> guard_replies,
                                   messages |-> SeedMessages(user_request),
                                   transactions |-> SubSeq(transactions, 1, ledger0),
                                   dispatched |-> <<>>,
                                   vs |-> vendors,
                                   use_guard |-> use_guardrails])>>
    /\ UNCHANGED <<calls, fresh, doc, vendors, search_log, transactions, use_guardrails,
                   model_kind, pc, user_request, turn, messages, tool_result, pending,
                   trace, requests, model_calls, guard_calls, guard_replies, ledger0>>

PairNext ==
    \/ Next
    \/ ProcessRequestBlocking

PairSpec == PairInit /\ [][PairNext]_vars

----------------------------------------------------------------------------
(* C35: the two variants are the same control loop (checked under PairSpec) *)

IsCall(tool_call) == tool_call.is_call

\* the tool calls the streaming invocation dispatched, in order
StreamingDispatched ==
    SelectSeq([i \in 1..Cardinality(Responses) |-> ParseToolCall(messages[2 * i + 1].content)],
              IsCall)

\* the terminal response of the streaming invocation: the text of its last
\* item, or none when an exception left the generator
StreamingTerminal ==
    IF pc = "raised" THEN <<>>
    ELSE IF trace[Len(trace)].kind = "ollama_error" THEN StreamingServiceError
    ELSE trace[Len(trace)].body

\* C35 as stated: started from equal stores and guardrail settings and fed
\* the same primary-model and classifier outcomes, the blocking and the
\* streaming variant perform the same tool dispatches, build the same
\* transcript, leave the same ledger and end with the same terminal response.
C35_VariantsAgree ==
    probe # <<>> =>
        /\ probe[1].left = <<0, 0>>
        /\ probe[1].ended = (IF pc = "raised" THEN "raised" ELSE "returned")
        /\ probe[1].dispatched = StreamingDispatched
        /\ probe[1].messages = messages
        /\ probe[1].transactions = transactions
        /\ probe[1].terminal = StreamingTerminal

\* the streaming invocation ended on a failed primary-model call
EndedOnServiceError ==
    pc # "raised" /\ trace[Len(trace)].kind = "ollama_error"

\* C35, amended: fed the same outcomes on equal stores and settings, the two
\* variants perform the same tool dispatches, build the same transcript,
\* leave the same ledger and end alike, by returning or by an exception of
\* a dispatch; a final answer and the fallback message are the same text in
\* both. A failed primary-model call ends both at once, but the terminal
\* texts differ: the streaming variant's last item carries the text of the
\* exception, the blocking variant returns a fixed message.
C35_VariantsAgreeButForErrorText ==
    probe # <<>> =>
        /\ probe[1].left = <<0, 0>>
        /\ probe[1].ended = (IF pc = "raised" THEN "raised" ELSE "returned")
        /\ probe[1].dispatched = StreamingDispatched
        /\ probe[1].messages = messages
        /\ probe[1].transactions = transactions
        /\ ~EndedOnServiceError => probe[1].terminal = StreamingTerminal
        /\ EndedOnServiceError =>
              /\ probe[1].terminal = BlockingServiceError
              /\ StreamingTerminal = StreamingServiceError
              /\ probe[1].terminal # StreamingTerminal

\* both variants have run a blocked search and a transfer with guardrails
\* enabled, and the third model call failed
C35_BothFailedInThirdTurn ==
    /\ probe # <<>>
    /\ use_guardrails
    /\ Len(probe[1].dispatched) = 2
    /\ Len(probe[1].transactions) = 1
    /\ ErrorKind(probe[1].messages[4].content[2]) = "SecurityBlock"
    /\ probe[1].terminal = BlockingServiceError

----------------------------------------------------------------------------
(* Two VendorRAG instances on the same path, each adding records.          *)

\* both instances have been constructed and have loaded the clean document
WritersInit ==
    /\ model_kind = "writers"
    /\ doc = CleanDoc(PlainNotes)
    /\ vendors = VendorsOf(doc)
    /\ fresh = VendorsOf(doc)
    /\ search_log = <<>>
    /\ calls = <<>>
    /\ probe = <<>>
    /\ AgentUnused

\* faulty variant of SecondAddVendor: the document is read and the record
\* merged into what it holds
SecondAddVendorMerges ==
    /\ Len(calls) < MaxCalls
    /\ \E entry \in PoisonEntries(model_kind) :
       \E document \in {JsonDocument(LoadFrom(doc, fresh) \o <<entry>>), doc, UnreadableDoc} :
          /\ fresh' = Append(fresh, entry)
          /\ doc' = document
          /\ calls' = Append(calls, Call("fresh_add", entry, fresh, fresh', doc',
                                         document \notin {doc, UnreadableDoc}))
    /\ UNCHANGED <<probe, vendors, search_log, transactions, use_guardrails, model_kind,
                   pc, user_request, turn, messages, tool_result, pending, trace, requests,
                   model_calls, guard_calls, guard_replies, ledger0>>

\* add_vendor on the second instance: the record is appended to its own
\* collection and the document rewritten in full with that collection; or
\* the write fails, on open or in json.dump, and False is returned
SecondAddVendor ==
    /\ Len(calls) < MaxCalls
    /\ \E entry \in PoisonEntries(model_kind) :
       \E document \in {JsonDocument(Append(fresh, entry)), doc, UnreadableDoc} :
          /\ fresh' = Append(fresh, entry)
          /\ doc' = document
          /\ calls' = Append(calls, Call("fresh_add", entry, fresh, fresh', doc',
                                         document \notin {doc, UnreadableDoc}))
    /\ UNCHANGED <<probe, vendors, search_log, transactions, use_guardrails, model_kind,
                   pc, user_request, turn, messages, tool_result, pending, trace, requests,
                   model_calls, guard_calls, guard_replies, ledger0>>

WritersNext ==
    \/ LoadVendors
    \/ FreshLoad
    \/ AddVendorWrites
    \/ AddVendorWriteFails
    \/ SecondAddVendor

WritersSpec == WritersInit /\ [][WritersNext]_vars

----------------------------------------------------------------------------
(* C36: last writer wins (checked under WritersSpec)                       *)

\* the call is an add_vendor, of either instance, that returned True
WroteAt(k) == calls[k].op \in {"add_vendor", "fresh_add"} /\ calls[k].returned

\* the call is a load by the instance that makes call k
ReloadsWriterOf(i, k) ==
    calls[i].op = (IF calls[k].op = "add_vendor" THEN "load_vendors" ELSE "fresh_load")

\* C36: an add_vendor that succeeds leaves the document holding exactly the
\* writer's own collection, its new record at the end, with no merge; so
\* when the two instances, loaded from the same path, each add a record, a
\* load after the second write gives the second writer's collection, with
\* its record and without the first writer's (a record the second writer
\* has not added itself, and has not loaded since).
C36_LastWriterWins ==
    /\ \A k \in 1..Len(calls) :
          WroteAt(k) =>
             /\ calls[k].after = Append(calls[k].before, calls[k].record)
             /\ calls[k].doc = JsonDocument(calls[k].after)
             /\ LoadFrom(calls[k].doc, <<>>) = calls[k].after
    /\ \A j \in 1..Len(calls) : \A k \in (j + 1)..Len(calls) :
          (/\ WroteAt(j) /\ WroteAt(k)
           /\ calls[j].op # calls[k].op
           /\ \A i \in 1..k : calls[i].op = calls[k].op => calls[i].record # calls[j].record
           /\ \A i \in 1..(k - 1) : ~ReloadsWriterOf(i, k))
          => /\ calls[k].record \in Range(LoadFrom(calls[k].doc, <<>>))
             /\ calls[j].record \notin Range(LoadFrom(calls[k].doc, <<>>))

\* each instance added a record of its own, and the first writer's load
\* afterwards gave the second writer's three records: its own record is gone
C36_FirstWriteLost ==
    /\ Len(calls) = 3
    /\ calls[1].op = "add_vendor" /\ calls[1].returned
    /\ calls[2].op = "fresh_add" /\ calls[2].returned
    /\ calls[1].record # calls[2].record
    /\ calls[3].op = "load_vendors" /\ calls[3].returned
    /\ vendors = fresh
    /\ Len(vendors) = 3
    /\ calls[1].record \notin Range(vendors)
    /\ calls[2].record \in Range(vendors)

----------------------------------------------------------------------------
(* C37: a service error or the fallback keeps earlier transfers            *)

\* the invocation has ended on the service error or on the fallback message
EndedWithoutAnswer ==
    /\ pc \in {"aborted", "final", "done"}
    /\ trace[Len(trace)].kind = "ollama_error" \/ LastIsFallback

\* C37: when an invocation ends on a failed primary-model call or on the
\* fallback message, every Transaction a successful transfer_funds dispatch
\* of an earlier turn appended is still in the ledger: the invocation has
\* added one entry per such dispatch, each equal to the result fed back.
C37_ServiceErrorKeepsTransfers ==
    EndedWithoutAnswer =>
        /\ Appended = Cardinality(SuccessfulTransfers)
        /\ \A i \in SuccessfulTransfers :
              \E n \in (ledger0 + 1)..Len(transactions) :
                  transactions[n] = messages[i].content[2]

\* the model call of the second turn has just failed, after the transfer of
\* the first turn: the terminal item is the service error and the ledger
\* holds the transaction
C37_FailedAfterTransfer ==
    /\ pc = "aborted"
    /\ turn = 2
    /\ trace[Len(trace)].kind = "ollama_error"
    /\ Cardinality(SuccessfulTransfers) = 1
    /\ Len(transactions) = ledger0 + 1
    /\ transactions[Len(transactions)] = messages[4].content[2]

----------------------------------------------------------------------------
(* The agent on a store with a history: loads, adds and lookups are made   *)
(* on its VendorRAG before the first request.                              *)

\* before PaymentAgent is constructed
FrameInit ==
    /\ model_kind = "frame"
    /\ doc \in PersistDocs
    /\ use_guardrails \in BOOLEAN
    /\ pc = "none"
    /\ vendors = <<>>
    /\ fresh = <<>>
    /\ search_log = <<>>
    /\ transactions = <<>>
    /\ user_request = <<>>
    /\ turn = 0
    /\ messages = <<>>
    /\ tool_result = <<>>
    /\ pending = <<>>
    /\ trace = <<>>
    /\ requests = 0
    /\ model_calls = 0
    /\ guard_calls = <<>>
    /\ guard_replies = <<>>
    /\ ledger0 = 0
    /\ calls = <<>>
    /\ probe = <<>>

\* get_vendor_by_id: the first record with the id, or None
GetVendorById ==
    /\ Len(calls) < MaxCalls
    /\ \E vendor_id \in {"V001", "V404"} :
          calls' = Append(calls,
                      Call("get_vendor_by_id", vendor_id, vendors, vendors, doc,
                           IF \E i \in 1..Len(vendors) : vendors[i].vendor_id = vendor_id
                           THEN vendors[CHOOSE i \in 1..Len(vendors) :
                                           /\ vendors[i].vendor_id = vendor_id
                                           /\ \A j \in 1..(i - 1) :
                                                 vendors[j].vendor_id # vendor_id]
                           ELSE <<>>))
    /\ UNCHANGED <<probe, fresh, doc, vendors, search_log, transactions, use_guardrails,
                   model_kind, pc, user_request, turn, messages, tool_result, pending,
                   trace, requests, model_calls, guard_calls, guard_replies, ledger0>>

\* the store is used directly only before the first request
StoreInUse == pc = "idle" /\ requests = 0 /\ Len(calls) <= MaxAdds

FrameNext ==
    \/ Construct
    \/ Next
    \/ StoreInUse /\ LoadVendors
    \/ StoreInUse /\ AddVendorWrites
    \/ StoreInUse /\ AddVendorWriteFails
    \/ StoreInUse /\ GetVendorById

FrameSpec == FrameInit /\ [][FrameNext]_vars

----------------------------------------------------------------------------
(* C38: what changes the collection and its document (checked under       *)
(* FrameSpec)                                                              *)

\* the step is a load_vendors that read the document: the collection is
\* replaced by the document's records, the document stays
ReplacedByLoad == doc' = doc /\ doc.ok /\ vendors' = VendorsOf(doc)

\* the step is an add_vendor: one record more at the end of the collection,
\* the records before it as they were; the document holds the collection,
\* or the write failed and it is as it was or cut short
AppendedByAdd ==
    /\ Len(vendors') = Len(vendors) + 1
    /\ SubSeq(vendors', 1, Len(vendors)) = vendors
    /\ \/ doc' = JsonDocument(vendors')
       \/ doc' = doc
       \/ ~doc'.ok

\* a call of the store has just been recorded
Recorded(op) == Len(calls') = Len(calls) + 1 /\ calls'[Len(calls')].op = op

\* C38: the collection and the document change only in a load_vendors, which
\* replaces the collection, and in an add_vendor, which appends one record
\* and rewrites the document; get_vendor_by_id, a search, a tool dispatch
\* and every step of a process_request invocation leave both as they are;
\* and add_vendor appends whatever the collection holds, a record with the
\* vendor_id or the name of an existing one included.
C38_OnlyLoadAndAddChangeTheStore ==
    [][ /\ (vendors' # vendors \/ doc' # doc) => (ReplacedByLoad \/ AppendedByAdd)
        /\ (vendors' # vendors \/ doc' # doc) => pc \in {"none", "idle"} /\ pc' = "idle"
        /\ Recorded("get_vendor_by_id") => UNCHANGED <<vendors, doc>>
        /\ (search_log' # search_log \/ transactions' # transactions
            \/ messages' # messages \/ trace' # trace) => UNCHANGED <<vendors, doc>>
        /\ Recorded("add_vendor") =>
              vendors' = Append(vendors, calls'[Len(calls')].record)
        /\ (Recorded("load_vendors") /\ ~doc.ok) => UNCHANGED <<vendors, doc>> ]_vars

\* a record was added whose vendor_id and name were already in the
\* collection, and a request was then carried out with a search and a
\* transfer: the collection and the document hold both records
C38_DuplicateKeptThroughRequest ==
    /\ pc = "done"
    /\ Len(calls) = 2
    /\ calls[2].op = "add_vendor" /\ calls[2].returned
    /\ \E i \in 1..Len(calls[2].before) :
          /\ calls[2].before[i].vendor_id = calls[2].record.vendor_id
          /\ calls[2].before[i].name = calls[2].record.name
    /\ vendors = Append(calls[2].before, calls[2].record)
    /\ doc = JsonDocument(vendors)
    /\ search_log # <<>>
    /\ Len(transactions) = 1

====
